---------------------------- MODULE Spec2Model ----------------------------
(***************************************************************************)
(* Model of "Activar Claro CNUM V3.py" (src/unnamed/part_000): the port    *)
(* lock registry, ModemSession, enviar_comando, the activation loop of     *)
(* procesar_puerto and the batch / sweep orchestration of main.            *)
(*                                                                         *)
(* A port is a number.  At any instant the program runs at most one thread *)
(* per port (revisar_puerto, procesar_puerto or borrar_mensajes_modem), so *)
(* pc[p] is the position of the thread of port p; m_pc is the position of  *)
(* the main thread.  The number patterns, the SMS store, the batch split   *)
(* and sincronizar (src/sincronizar_bbdd.py) are also looked at alone,     *)
(* each under a specification of its own.                                  *)
(***************************************************************************)
EXTENDS Integers, Sequences, FiniteSets, TLC

\* ------------------------------------------------------------- bounds
\* Ports detected by listar_puertos_disponibles in the fine-grained model.
NumPuertos == 2
\* Largest number of live ports in the batching model (SpecLotes).
MaxVivos == 12
\* Concurrent callers in the registry model (SpecRegistro).
NumLlamadores == 3
\* Passes of main() that are run (__main__ runs two, line 1062).
Pasadas == 1

\* ------------------------------------------------- program constants
TAM_LOTE == 10
MAX_INTENTOS == 3
MAX_CONSULTAS_ICCID == 5
MAX_REPETICIONES == 2

Ninguno == "None"
NUMERO == "569XXXXXXXX"

VARIABLES
    puertos,            \* serial.tools.list_ports.comports(): the detected ports
    chip,               \* chip[p]: operator family of the SIM in port p
    m_pc,               \* position of the main thread
    contador,           \* __main__: passes of main() completed
    modems_activos,     \* list filled by revisar_puerto
    lotes,              \* main: list of batches
    i_lote,             \* main: index of the running batch (1-based)
    intento,            \* main: sweep index of `for intento in range(2)`
    arrancados,         \* ports whose batch worker main has started in this pass
    pc,                 \* pc[p]: position of the thread of port p
    serial_port_locks,  \* _serial_port_locks: port -> Lock object (0: no entry)
    creados,            \* creados[p]: Lock objects ever created for port p
    tomados,            \* set of <<port, Lock object>> currently acquired
    lock_ref,           \* lock_ref[p]: the Lock the thread of p got from the registry
    open_sessions,      \* _open_sessions: keys of the dict
    handles,            \* handles[p]: open OS handles on the device of port p
    sim_sin_numero,
    total_claro,
    activaciones_claro,
    contadores_lock,    \* holder of contadores_lock (0: free)
    sim_set_lock,       \* holder of sim_set_lock (0: free)
    iccid_activados,
    listado,            \* listadonumeros_claro.txt: lines per ICCID
    fallos_existe,      \* fallos_sin_numero.txt exists
    fallos_numero,      \* fallos_sin_numero.txt: ports with a line
    iccid,              \* procesar_puerto: local iccid (0: None; the card of port p has ICCID p)
    consultas,          \* obtener_iccid: AT+QCCID queries made
    intentos,           \* procesar_puerto: local intentos
    ciclos,             \* activar_chip calls made by the running worker
    ussd,               \* AT+CUSD activation requests sent by the running worker
    numero_obtenido,    \* procesar_puerto: local numero_obtenido
    leido,              \* leer_sms: local puertos_fallidos
    excepcion,          \* an exception is propagating out of the with block
    ult_falla,          \* last enviar_comando call of the thread hit an I/O exception
    ult_resp,           \* response returned by that call
    ll_pc, ll_puerto, ll_lock,  \* callers of _get_port_lock (registry model)
    registro_lock,      \* holder of _serial_port_locks_lock (0: free)
    contenido,          \* a listing or a decoded message body, as fragments
    pat_pc,             \* position of the pattern evaluation
    numero_texto,       \* number the patterns of leer_sms give (<<>>: None)
    numero_pdu,         \* extraer_numero_desde_contenido's result (<<>>: None)
    almacen,            \* almacen[z][i]: message in slot i of memory zone z
    sc_pc,              \* position of the extractor call
    zona,               \* index in COMANDOS_MEMORIAS of the zone being scanned
    pendientes,         \* blocks of the current listing not yet looked at
    llamada,            \* extractor calls started on the port
    devuelto,           \* devuelto[k]: what call k returned
    portador,           \* portador[k]: <<zone, slot>> of the message that gave it
    cmgd,               \* AT+CMGD commands issued: <<call, zone, slot>>
    escaneados,         \* messages of this call handed to read_incoming_sms
    listados,           \* AT+CMGL=4 listings made in this call
    vel,                \* main: the answer `velocidad` to the speed prompt
    archivo_local,      \* sincronizar: the records of listadonumeros_claro.txt
    claro_numbers,      \* rows of the table claro_numbers: <<numero, iccid>>
    unicos,             \* columns of the table that carry a unique index
    registros_nuevos,   \* sincronizar: the records kept by the filter
    sinc_pc,            \* position of sincronizar
    i_sinc,             \* insertar_registros_paralelo: start index of the batch
    hilos_lote,         \* indices of registros_nuevos whose worker is running
    resultado_queue     \* results put by the workers: <<resultado, numero, iccid>>

vars_main == <<m_pc, contador, modems_activos, lotes, i_lote, intento, arrancados>>
vars_reg == <<serial_port_locks, creados>>
vars_dev == <<puertos, chip, handles>>
vars_glob == <<sim_sin_numero, total_claro, activaciones_claro, contadores_lock,
               sim_set_lock, iccid_activados, listado, fallos_existe, fallos_numero>>
vars_loc == <<iccid, consultas, intentos, ciclos, ussd, numero_obtenido, leido,
              excepcion, ult_falla, ult_resp>>
vars_ll == <<ll_pc, ll_puerto, ll_lock, registro_lock>>
vars_pat == <<contenido, pat_pc, numero_texto, numero_pdu>>
vars_sms == <<almacen, sc_pc, zona, pendientes, llamada, devuelto, portador, cmgd,
              escaneados, listados>>
vars_lot == <<vel>>
vars_sinc == <<archivo_local, claro_numbers, unicos, registros_nuevos, sinc_pc,
               i_sinc, hilos_lote, resultado_queue>>
vars_ext == <<vars_pat, vars_sms, vars_lot, vars_sinc>>
vars_prog == <<vars_main, vars_reg, vars_dev, vars_glob, vars_loc, vars_ll,
               pc, tomados, lock_ref, open_sessions>>
vars == <<vars_prog, vars_ext>>

Llamadores == 1..NumLlamadores

\* Replace the value of f at p.
Pon(f, p, v) == [f EXCEPT ![p] = v]

\* ===================================================== Port Lock Registry
\* dict.setdefault(puerto, threading.Lock()): a bug variant that stores a new
\* Lock on every call.
setdefault_sobrescribe(reg, cre, p) ==
    [reg |-> Pon(reg, p, cre[p] + 1), cre |-> Pon(cre, p, cre[p] + 1),
     lock |-> cre[p] + 1]

\* dict.setdefault(puerto, threading.Lock()): the entry of p if there is one,
\* else a new Lock, stored and returned.
setdefault(reg, cre, p) ==
    IF reg[p] # 0
    THEN [reg |-> reg, cre |-> cre, lock |-> reg[p]]
    ELSE [reg |-> Pon(reg, p, cre[p] + 1), cre |-> Pon(cre, p, cre[p] + 1),
          lock |-> cre[p] + 1]

\* _get_port_lock(puerto), run under _serial_port_locks_lock: one atomic step.
\* Leaves the returned Lock in lock_ref[p].
get_port_lock(p) ==
    LET r == setdefault(serial_port_locks, creados, p) IN
    /\ serial_port_locks' = r.reg
    /\ creados' = r.cre
    /\ lock_ref' = Pon(lock_ref, p, r.lock)

Libre(p, l) == <<p, l>> \notin tomados

\* ========================================================== ModemSession
\* __enter__, line 123: self.lock = _get_port_lock(self.puerto)
ModemSession_enter_lock(p) ==
    /\ pc[p] = "enter"
    /\ get_port_lock(p)
    /\ pc' = Pon(pc, p, "enter_acquire")
    /\ UNCHANGED <<vars_main, vars_dev, vars_glob, vars_loc, vars_ll,
                   tomados, open_sessions>>
    /\ UNCHANGED vars_ext

\* __enter__, line 124: self.lock.acquire() blocks until the Lock is free.
ModemSession_enter_acquire(p) ==
    /\ pc[p] = "enter_acquire"
    /\ Libre(p, lock_ref[p])
    /\ tomados' = tomados \cup {<<p, lock_ref[p]>>}
    /\ pc' = Pon(pc, p, "enter_open")
    /\ UNCHANGED <<vars_main, vars_reg, vars_dev, vars_glob, vars_loc, vars_ll,
                   lock_ref, open_sessions>>
    /\ UNCHANGED vars_ext

\* __enter__, lines 125-129: serial.Serial(...) opens the device and the handle
\* is registered; or the open raises, __enter__ propagates, __exit__ is not
\* run and the thread ends with the exception.
ModemSession_enter_open(p) ==
    /\ pc[p] = "enter_open"
    /\ \E abre \in BOOLEAN :
         IF abre
         THEN /\ handles' = Pon(handles, p, handles[p] + 1)
              /\ open_sessions' = open_sessions \cup {p}
              /\ pc' = Pon(pc, p, "iccid")
         ELSE /\ pc' = Pon(pc, p, "muerto")
              /\ UNCHANGED <<handles, open_sessions>>
    /\ UNCHANGED <<vars_main, vars_reg, puertos, chip, vars_glob,
                   vars_loc, vars_ll, tomados, lock_ref>>
    /\ UNCHANGED vars_ext

\* __exit__ without the close (a bug variant): the handle stays open.
ModemSession_exit_sin_close(p) ==
    /\ pc[p] = "exit_close"
    /\ pc' = Pon(pc, p, "exit_pop")
    /\ UNCHANGED <<vars_main, vars_reg, vars_dev, vars_glob, vars_loc, vars_ll,
                   tomados, lock_ref, open_sessions>>
    /\ UNCHANGED vars_ext

\* __exit__ with the release moved to the front (a bug variant): the lock
\* is given back while the handle is registered.
ModemSession_exit_release_primero(p) ==
    /\ pc[p] = "exit_close"
    /\ tomados' = tomados \ {<<p, lock_ref[p]>>}
    /\ handles' = Pon(handles, p, IF p \in open_sessions THEN handles[p] - 1
                                  ELSE handles[p])
    /\ pc' = Pon(pc, p, "exit_pop")
    /\ UNCHANGED <<vars_main, vars_reg, puertos, chip, vars_glob,
                   vars_loc, vars_ll, lock_ref, open_sessions>>
    /\ UNCHANGED vars_ext

\* __exit__, lines 140-144: close the handle if it is open.
ModemSession_exit_close(p) ==
    /\ pc[p] = "exit_close"
    /\ handles' = Pon(handles, p, IF p \in open_sessions THEN handles[p] - 1
                                  ELSE handles[p])
    /\ pc' = Pon(pc, p, "exit_pop")
    /\ UNCHANGED <<vars_main, vars_reg, puertos, chip, vars_glob,
                   vars_loc, vars_ll, tomados, lock_ref, open_sessions>>
    /\ UNCHANGED vars_ext

\* __exit__, line 145: _open_sessions.pop(self.puerto, None)
ModemSession_exit_pop(p) ==
    /\ pc[p] = "exit_pop"
    /\ open_sessions' = open_sessions \ {p}
    /\ pc' = Pon(pc, p, "exit_release")
    /\ UNCHANGED <<vars_main, vars_reg, vars_dev, vars_glob, vars_loc, vars_ll,
                   tomados, lock_ref>>
    /\ UNCHANGED vars_ext

\* __exit__ with the release skipped when the block raised (a bug variant).
ModemSession_exit_release_si_normal(p) ==
    /\ pc[p] = "exit_release"
    /\ tomados' = IF excepcion[p] THEN tomados ELSE tomados \ {<<p, lock_ref[p]>>}
    /\ pc' = Pon(pc, p, "fin")
    /\ UNCHANGED <<vars_main, vars_reg, vars_dev, vars_glob, vars_loc, vars_ll,
                   lock_ref, open_sessions>>
    /\ UNCHANGED vars_ext

\* __exit__, lines 146-147: self.lock.release(); the with block is left and
\* procesar_puerto returns (or the exception of the block ends the thread).
ModemSession_exit_release(p) ==
    /\ pc[p] = "exit_release"
    /\ tomados' = tomados \ {<<p, lock_ref[p]>>}
    /\ pc' = Pon(pc, p, "fin")
    /\ UNCHANGED <<vars_main, vars_reg, vars_dev, vars_glob, vars_loc, vars_ll,
                   lock_ref, open_sessions>>
    /\ UNCHANGED vars_ext

\* ======================================================= enviar_comando
\* The except clause narrowed to one exception class: other failures leave
\* the function (a bug variant).
enviar_comando_sin_except(falla, datos) ==
    IF falla THEN [resp |-> datos, propaga |-> TRUE]
    ELSE [resp |-> datos, propaga |-> FALSE]

\* enviar_comando, lines 501-509 and 514-523: what the call gives back when
\* the device would answer `datos` and write/read raises (falla) or not.
\* `except Exception` catches every failure and returns "".
enviar_comando_resultado(falla, datos) ==
    IF falla THEN [resp |-> "", propaga |-> FALSE]
    ELSE [resp |-> datos, propaga |-> FALSE]

\* Answers of the device to AT+QCCID: nothing, or the 19-20 digit identity.
RespuestasIccid == {"", "ICCID"}

\* What a message listing (AT+CMGL) holds for the extractors: a message that
\* carries the number, or none.
RespuestasSms == {"", "numero"}

\* obtener_operador(iccid), lines 697-700, on the chip of port p.
obtener_operador(p) == chip[p]

\* The loop test without its second half (a bug variant).
SigueCiclo_sin_numero(n, num) == IF n < MAX_INTENTOS THEN "activar" ELSE "exit_close"

\* The `while intentos < 3 and not numero_obtenido` test of line 903.
SigueCiclo(n, num) == IF n < MAX_INTENTOS /\ num = Ninguno THEN "activar" ELSE "exit_close"

\* ====================================================== procesar_puerto
\* obtener_iccid whose caller lacks the `if not iccid: return` of lines
\* 891-892 (a bug variant): after 5 queries without identity the worker goes on.
obtener_iccid_sin_return(p) ==
    /\ pc[p] = "iccid"
    /\ p \in open_sessions
    /\ \E falla \in BOOLEAN, datos \in RespuestasIccid :
         LET r == enviar_comando_resultado(falla, datos) IN
         /\ ult_falla' = Pon(ult_falla, p, falla)
         /\ ult_resp' = Pon(ult_resp, p, r.resp)
         /\ UNCHANGED excepcion
         /\ IF r.resp = "ICCID"
            THEN /\ iccid' = Pon(iccid, p, p)
                 /\ consultas' = Pon(consultas, p, 0)
                 /\ pc' = Pon(pc, p, "total_acquire")
            ELSE /\ UNCHANGED iccid
                 /\ consultas' = Pon(consultas, p, consultas[p] + 1)
                 /\ pc' = Pon(pc, p, IF consultas[p] + 1 < MAX_CONSULTAS_ICCID
                                     THEN "iccid" ELSE "total_acquire")
    /\ UNCHANGED <<vars_main, vars_reg, vars_dev, vars_glob, vars_ll, intentos,
                   ciclos, ussd, numero_obtenido, leido, tomados, lock_ref,
                   open_sessions>>
    /\ UNCHANGED vars_ext

\* obtener_iccid, lines 687-694: one AT+QCCID query through the open session;
\* a match returns the identity, else sleep 5 s and retry, None after 5.
obtener_iccid(p) ==
    /\ pc[p] = "iccid"
    /\ p \in open_sessions
    /\ \E falla \in BOOLEAN, datos \in RespuestasIccid :
         LET r == enviar_comando_resultado(falla, datos) IN
         /\ ult_falla' = Pon(ult_falla, p, falla)
         /\ ult_resp' = Pon(ult_resp, p, r.resp)
         /\ IF r.propaga
            THEN /\ excepcion' = Pon(excepcion, p, TRUE)
                 /\ consultas' = Pon(consultas, p, consultas[p] + 1)
                 /\ pc' = Pon(pc, p, "exit_close")
                 /\ UNCHANGED iccid
            ELSE /\ UNCHANGED excepcion
                 /\ IF r.resp = "ICCID"
                    THEN /\ iccid' = Pon(iccid, p, p)
                         /\ consultas' = Pon(consultas, p, 0)
                         /\ pc' = Pon(pc, p, "total_acquire")
                    ELSE /\ UNCHANGED iccid
                         /\ consultas' = Pon(consultas, p, consultas[p] + 1)
                         /\ pc' = Pon(pc, p, IF consultas[p] + 1 < MAX_CONSULTAS_ICCID
                                             THEN "iccid" ELSE "exit_close")
    /\ UNCHANGED <<vars_main, vars_reg, vars_dev, vars_glob, vars_ll, intentos,
                   ciclos, ussd, numero_obtenido, leido, tomados, lock_ref,
                   open_sessions>>
    /\ UNCHANGED vars_ext

\* line 897: with contadores_lock (acquire).
total_acquire(p) ==
    /\ pc[p] = "total_acquire"
    /\ contadores_lock = 0
    /\ contadores_lock' = p
    /\ pc' = Pon(pc, p, "total_inc")
    /\ ult_falla' = Pon(ult_falla, p, FALSE)
    /\ ult_resp' = Pon(ult_resp, p, Ninguno)
    /\ UNCHANGED <<vars_main, vars_reg, vars_dev, sim_sin_numero, total_claro,
                   activaciones_claro, sim_set_lock, iccid_activados, listado,
                   fallos_existe, fallos_numero, vars_ll, iccid, consultas,
                   intentos, ciclos, ussd, numero_obtenido, leido, excepcion,
                   tomados, lock_ref, open_sessions>>
    /\ UNCHANGED vars_ext

\* The attempt counted only for identities not yet in iccid_activados (a
\* bug variant): their workers can still count an activation.
total_inc_salvo_activados(p) ==
    /\ pc[p] = "total_inc"
    /\ contadores_lock = p
    /\ total_claro' = IF obtener_operador(p) = "Claro" /\ iccid[p] \notin iccid_activados
                      THEN total_claro + 1 ELSE total_claro
    /\ contadores_lock' = 0
    /\ pc' = Pon(pc, p, SigueCiclo(intentos[p], numero_obtenido[p]))
    /\ UNCHANGED <<vars_main, vars_reg, vars_dev, sim_sin_numero,
                   activaciones_claro, sim_set_lock, iccid_activados, listado,
                   fallos_existe, fallos_numero, vars_ll, vars_loc, tomados,
                   lock_ref, open_sessions>>
    /\ UNCHANGED vars_ext

\* lines 898-903: total_claro += 1 for a Claro chip, release, loop test.
total_inc(p) ==
    /\ pc[p] = "total_inc"
    /\ contadores_lock = p
    /\ total_claro' = IF obtener_operador(p) = "Claro" THEN total_claro + 1
                      ELSE total_claro
    /\ contadores_lock' = 0
    /\ pc' = Pon(pc, p, SigueCiclo(intentos[p], numero_obtenido[p]))
    /\ UNCHANGED <<vars_main, vars_reg, vars_dev, sim_sin_numero,
                   activaciones_claro, sim_set_lock, iccid_activados, listado,
                   fallos_existe, fallos_numero, vars_ll, vars_loc, tomados,
                   lock_ref, open_sessions>>
    /\ UNCHANGED vars_ext

\* activar_chip, lines 706-726: nothing for an identity of iccid_activados;
\* else the USSD request for a Claro chip, and a line appended to
\* fallos_sin_numero.txt.
activar_chip(p) ==
    /\ pc[p] = "activar"
    /\ p \in open_sessions
    /\ ciclos' = Pon(ciclos, p, ciclos[p] + 1)
    /\ IF iccid[p] \in iccid_activados
       THEN UNCHANGED <<ussd, fallos_existe, fallos_numero>>
       ELSE /\ ussd' = Pon(ussd, p, IF obtener_operador(p) = "Claro"
                                    THEN ussd[p] + 1 ELSE ussd[p])
            /\ fallos_existe' = TRUE
            /\ fallos_numero' = fallos_numero \cup {p}
    /\ pc' = Pon(pc, p, "leer_sms")
    /\ UNCHANGED <<vars_main, vars_reg, vars_dev, sim_sin_numero, total_claro,
                   activaciones_claro, contadores_lock, sim_set_lock,
                   iccid_activados, listado, vars_ll, iccid, consultas, intentos,
                   numero_obtenido, leido, excepcion, ult_falla, ult_resp,
                   tomados, lock_ref, open_sessions>>
    /\ UNCHANGED vars_ext

\* leer_sms, lines 729-770 and 781-784: the text-mode listing of the three
\* zones; `listado_sms` is what the device lists (a lost command lists
\* nothing).  For a Claro chip a listing that matches a pattern gives the
\* number; nothing is deleted.
leer_sms(p) ==
    /\ pc[p] = "leer_sms"
    /\ p \in open_sessions
    /\ \E falla \in BOOLEAN, listado_sms \in RespuestasSms :
         LET r == enviar_comando_resultado(falla, listado_sms) IN
         pc' = Pon(pc, p, IF obtener_operador(p) = "Claro" /\ r.resp = "numero"
                          THEN "filtrar_leer" ELSE "pdu")
    /\ UNCHANGED <<vars_main, vars_reg, vars_dev, vars_glob, vars_ll, vars_loc,
                   tomados, lock_ref, open_sessions>>
    /\ UNCHANGED vars_ext

\* leer_sms, lines 771-774: open(LOG_FALLOS_NUMERO, "r") raises when the file
\* does not exist; else the lines of the other ports are kept.
leer_sms_filtrar_leer(p) ==
    /\ pc[p] = "filtrar_leer"
    /\ IF fallos_existe
       THEN /\ leido' = Pon(leido, p, fallos_numero \ {p})
            /\ pc' = Pon(pc, p, "filtrar_escribir")
            /\ UNCHANGED excepcion
       ELSE /\ excepcion' = Pon(excepcion, p, TRUE)
            /\ pc' = Pon(pc, p, "exit_close")
            /\ UNCHANGED leido
    /\ UNCHANGED <<vars_main, vars_reg, vars_dev, vars_glob, vars_ll, iccid,
                   consultas, intentos, ciclos, ussd, numero_obtenido, ult_falla,
                   ult_resp, tomados, lock_ref, open_sessions>>
    /\ UNCHANGED vars_ext

\* The caller without the `if not numero_obtenido` of line 910 (a bug
\* variant): the PDU extractor also runs after a number was returned.
leer_sms_filtrar_escribir_y_pdu(p) ==
    /\ pc[p] = "filtrar_escribir"
    /\ fallos_numero' = leido[p]
    /\ leido' = Pon(leido, p, {})
    /\ numero_obtenido' = Pon(numero_obtenido, p, NUMERO)
    /\ pc' = Pon(pc, p, "pdu")
    /\ UNCHANGED <<vars_main, vars_reg, vars_dev, sim_sin_numero, total_claro,
                   activaciones_claro, contadores_lock, sim_set_lock,
                   iccid_activados, listado, fallos_existe, vars_ll, iccid,
                   consultas, intentos, ciclos, ussd, excepcion, ult_falla,
                   ult_resp, tomados, lock_ref, open_sessions>>
    /\ UNCHANGED vars_ext

\* leer_sms, lines 776-779: the file is rewritten with the kept lines and the
\* number is returned (line 909).
leer_sms_filtrar_escribir(p) ==
    /\ pc[p] = "filtrar_escribir"
    /\ fallos_numero' = leido[p]
    /\ leido' = Pon(leido, p, {})
    /\ numero_obtenido' = Pon(numero_obtenido, p, NUMERO)
    /\ pc' = Pon(pc, p, "guardar")
    /\ UNCHANGED <<vars_main, vars_reg, vars_dev, sim_sin_numero, total_claro,
                   activaciones_claro, contadores_lock, sim_set_lock,
                   iccid_activados, listado, fallos_existe, vars_ll, iccid,
                   consultas, intentos, ciclos, ussd, excepcion, ult_falla,
                   ult_resp, tomados, lock_ref, open_sessions>>
    /\ UNCHANGED vars_ext

\* leer_sms_modo_pdu, lines 432-483 (called at 910-912): the first message
\* whose decoded content holds a number is deleted (AT+CMGD, best effort) and
\* its number returned; else None.
leer_sms_modo_pdu(p) ==
    /\ pc[p] = "pdu"
    /\ p \in open_sessions
    /\ \E falla \in BOOLEAN, listado_sms \in RespuestasSms :
         LET r == enviar_comando_resultado(falla, listado_sms) IN
         IF r.resp = "numero"
         THEN /\ numero_obtenido' = Pon(numero_obtenido, p, NUMERO)
              /\ pc' = Pon(pc, p, "guardar")
         ELSE /\ pc' = Pon(pc, p, "set_acquire")
              /\ UNCHANGED numero_obtenido
    /\ UNCHANGED <<vars_main, vars_reg, vars_dev, vars_glob, vars_ll, iccid,
                   consultas, intentos, ciclos, ussd, leido, excepcion, ult_falla,
                   ult_resp, tomados, lock_ref, open_sessions>>
    /\ UNCHANGED vars_ext

\* guardar_resultado, lines 834-880 (called at 915): the pair is appended to
\* listadonumeros_claro.txt, written to the SIM and inserted in the database.
guardar_resultado(p) ==
    /\ pc[p] = "guardar"
    /\ p \in open_sessions
    /\ listado' = Pon(listado, p, listado[p] + 1)
    /\ pc' = Pon(pc, p, "activ_acquire")
    /\ UNCHANGED <<vars_main, vars_reg, vars_dev, sim_sin_numero, total_claro,
                   activaciones_claro, contadores_lock, sim_set_lock,
                   iccid_activados, fallos_existe, fallos_numero, vars_ll,
                   vars_loc, tomados, lock_ref, open_sessions>>
    /\ UNCHANGED vars_ext

\* line 916: with contadores_lock (acquire).
activ_acquire(p) ==
    /\ pc[p] = "activ_acquire"
    /\ contadores_lock = 0
    /\ contadores_lock' = p
    /\ pc' = Pon(pc, p, "activ_inc")
    /\ UNCHANGED <<vars_main, vars_reg, vars_dev, sim_sin_numero, total_claro,
                   activaciones_claro, sim_set_lock, iccid_activados, listado,
                   fallos_existe, fallos_numero, vars_ll, vars_loc, tomados,
                   lock_ref, open_sessions>>
    /\ UNCHANGED vars_ext

\* The increment without the operator test of line 917 (a bug variant).
activ_inc_siempre(p) ==
    /\ pc[p] = "activ_inc"
    /\ contadores_lock = p
    /\ activaciones_claro' = activaciones_claro + 1
    /\ contadores_lock' = 0
    /\ pc' = Pon(pc, p, "fin_ciclo")
    /\ UNCHANGED <<vars_main, vars_reg, vars_dev, sim_sin_numero, total_claro,
                   sim_set_lock, iccid_activados, listado, fallos_existe,
                   fallos_numero, vars_ll, vars_loc, tomados, lock_ref,
                   open_sessions>>
    /\ UNCHANGED vars_ext

\* lines 917-918: activaciones_claro += 1 for a Claro chip, release.
activ_inc(p) ==
    /\ pc[p] = "activ_inc"
    /\ contadores_lock = p
    /\ activaciones_claro' = IF obtener_operador(p) = "Claro"
                             THEN activaciones_claro + 1 ELSE activaciones_claro
    /\ contadores_lock' = 0
    /\ pc' = Pon(pc, p, "fin_ciclo")
    /\ UNCHANGED <<vars_main, vars_reg, vars_dev, sim_sin_numero, total_claro,
                   sim_set_lock, iccid_activados, listado, fallos_existe,
                   fallos_numero, vars_ll, vars_loc, tomados, lock_ref,
                   open_sessions>>
    /\ UNCHANGED vars_ext

\* line 920: with sim_set_lock (acquire).
set_acquire(p) ==
    /\ pc[p] = "set_acquire"
    /\ sim_set_lock = 0
    /\ sim_set_lock' = p
    /\ pc' = Pon(pc, p, "set_add")
    /\ UNCHANGED <<vars_main, vars_reg, vars_dev, sim_sin_numero, total_claro,
                   activaciones_claro, contadores_lock, iccid_activados, listado,
                   fallos_existe, fallos_numero, vars_ll, vars_loc, tomados,
                   lock_ref, open_sessions>>
    /\ UNCHANGED vars_ext

\* The add with the lock taken by hand and never released (a bug variant):
\* the thread goes to sleep holding sim_set_lock.
set_add_sin_soltar(p) ==
    /\ pc[p] = "set_add"
    /\ sim_set_lock = p
    /\ sim_sin_numero' = sim_sin_numero \cup {p}
    /\ pc' = Pon(pc, p, "fin_ciclo")
    /\ UNCHANGED <<vars_main, vars_reg, vars_dev, total_claro,
                   activaciones_claro, contadores_lock, sim_set_lock,
                   iccid_activados, listado, fallos_existe, fallos_numero,
                   vars_ll, vars_loc, tomados, lock_ref, open_sessions>>
    /\ UNCHANGED vars_ext

\* line 921: sim_sin_numero.add(puerto), release.
set_add(p) ==
    /\ pc[p] = "set_add"
    /\ sim_set_lock = p
    /\ sim_sin_numero' = sim_sin_numero \cup {p}
    /\ sim_set_lock' = 0
    /\ pc' = Pon(pc, p, "fin_ciclo")
    /\ UNCHANGED <<vars_main, vars_reg, vars_dev, total_claro,
                   activaciones_claro, contadores_lock, iccid_activados, listado,
                   fallos_existe, fallos_numero, vars_ll, vars_loc, tomados,
                   lock_ref, open_sessions>>
    /\ UNCHANGED vars_ext

\* The loop bound off by one: `while intentos <= 3` (a bug variant).
fin_ciclo_uno_mas(p) ==
    /\ pc[p] = "fin_ciclo"
    /\ intentos' = Pon(intentos, p, intentos[p] + 1)
    /\ pc' = Pon(pc, p, IF intentos[p] + 1 <= MAX_INTENTOS /\ numero_obtenido[p] = Ninguno
                        THEN "activar" ELSE "exit_close")
    /\ UNCHANGED <<vars_main, vars_reg, vars_dev, vars_glob, vars_ll, iccid,
                   consultas, ciclos, ussd, numero_obtenido, leido, excepcion,
                   ult_falla, ult_resp, tomados, lock_ref, open_sessions>>
    /\ UNCHANGED vars_ext

\* lines 923-930 and 903: intentos += 1, sleep 10 s when there is no number,
\* then the loop test.
fin_ciclo(p) ==
    /\ pc[p] = "fin_ciclo"
    /\ intentos' = Pon(intentos, p, intentos[p] + 1)
    /\ pc' = Pon(pc, p, SigueCiclo(intentos[p] + 1, numero_obtenido[p]))
    /\ UNCHANGED <<vars_main, vars_reg, vars_dev, vars_glob, vars_ll, iccid,
                   consultas, ciclos, ussd, numero_obtenido, leido, excepcion,
                   ult_falla, ult_resp, tomados, lock_ref, open_sessions>>
    /\ UNCHANGED vars_ext

\* Positions at which the thread is inside a device command (write, settle
\* sleep, read) or in a sleep between retries: ser.write may never return (the
\* handles are opened with no write timeout, lines 125-127 and 515).
EnDispositivo == {"enter_open", "iccid", "activar", "leer_sms", "pdu", "guardar",
                  "fin_ciclo", "eph_open", "eph_io", "revisar", "rev_io"}

\* ============================== enviar_comando without a session (legacy)
\* borrar_mensajes_modem, lines 568-571, entering enviar_comando, lines
\* 499-512: with a session registered the command goes through its handle;
\* else the port lock is fetched.
borrar_mensajes_modem(p) ==
    /\ pc[p] = "borrar"
    /\ IF p \in open_sessions
       THEN /\ \E falla \in BOOLEAN :
                 LET r == enviar_comando_resultado(falla, "OK") IN
                 /\ ult_falla' = Pon(ult_falla, p, falla)
                 /\ ult_resp' = Pon(ult_resp, p, r.resp)
                 /\ excepcion' = Pon(excepcion, p, r.propaga)
            /\ pc' = Pon(pc, p, "eph_fin")
            /\ UNCHANGED <<vars_reg, lock_ref>>
       ELSE /\ get_port_lock(p)
            /\ pc' = Pon(pc, p, "eph_acquire")
            /\ UNCHANGED <<ult_falla, ult_resp, excepcion>>
    /\ UNCHANGED <<vars_main, puertos, chip, handles, vars_glob, vars_ll, iccid,
                   consultas, intentos, ciclos, ussd, numero_obtenido, leido,
                   tomados, open_sessions>>
    /\ UNCHANGED vars_ext

\* enviar_comando, line 513: with lock (acquire).
enviar_comando_acquire(p) ==
    /\ pc[p] = "eph_acquire"
    /\ Libre(p, lock_ref[p])
    /\ tomados' = tomados \cup {<<p, lock_ref[p]>>}
    /\ pc' = Pon(pc, p, "eph_open")
    /\ UNCHANGED <<vars_main, vars_reg, vars_dev, vars_glob, vars_loc, vars_ll,
                   lock_ref, open_sessions>>
    /\ UNCHANGED vars_ext

\* enviar_comando, lines 514-515 and 521-523: the device is opened; when the
\* open raises, the except clause returns "" and the lock is released.
enviar_comando_open(p) ==
    /\ pc[p] = "eph_open"
    /\ \E abre \in BOOLEAN :
         IF abre
         THEN /\ handles' = Pon(handles, p, handles[p] + 1)
              /\ pc' = Pon(pc, p, "eph_io")
              /\ UNCHANGED <<tomados, ult_falla, ult_resp, excepcion>>
         ELSE LET r == enviar_comando_resultado(TRUE, "OK") IN
              /\ ult_falla' = Pon(ult_falla, p, TRUE)
              /\ ult_resp' = Pon(ult_resp, p, r.resp)
              /\ excepcion' = Pon(excepcion, p, r.propaga)
              /\ tomados' = tomados \ {<<p, lock_ref[p]>>}
              /\ pc' = Pon(pc, p, "eph_fin")
              /\ UNCHANGED handles
    /\ UNCHANGED <<vars_main, vars_reg, puertos, chip, vars_glob, vars_ll,
                   iccid, consultas, intentos, ciclos, ussd, numero_obtenido,
                   leido, lock_ref, open_sessions>>
    /\ UNCHANGED vars_ext

\* enviar_comando, lines 516-523: write, settle, read; the handle is closed by
\* its with block and the lock released, also when write or read raises.
enviar_comando_io(p) ==
    /\ pc[p] = "eph_io"
    /\ \E falla \in BOOLEAN :
         LET r == enviar_comando_resultado(falla, "OK") IN
         /\ ult_falla' = Pon(ult_falla, p, falla)
         /\ ult_resp' = Pon(ult_resp, p, r.resp)
         /\ excepcion' = Pon(excepcion, p, r.propaga)
    /\ handles' = Pon(handles, p, handles[p] - 1)
    /\ tomados' = tomados \ {<<p, lock_ref[p]>>}
    /\ pc' = Pon(pc, p, "eph_fin")
    /\ UNCHANGED <<vars_main, vars_reg, puertos, chip, vars_glob, vars_ll, iccid,
                   consultas, intentos, ciclos, ussd, numero_obtenido, leido,
                   lock_ref, open_sessions>>
    /\ UNCHANGED vars_ext

\* ======================================================== liveness probe
\* resultado.append(puerto), line 642.  The list of the code is in the order
\* in which the probe threads end; the ports are interchangeable, and the
\* list is kept in port order.
Insertar(sq, p) ==
    LET antes == SelectSeq(sq, LAMBDA x : x < p)
        despues == SelectSeq(sq, LAMBDA x : x > p)
    IN antes \o <<p>> \o despues

\* revisar_puerto, lines 636-637 and 654-655: the device is opened, with no
\* port lock; a failed open is logged.
revisar_puerto_open(p) ==
    /\ pc[p] = "revisar"
    /\ \E abre \in BOOLEAN :
         IF abre
         THEN /\ handles' = Pon(handles, p, handles[p] + 1)
              /\ pc' = Pon(pc, p, "rev_io")
         ELSE /\ pc' = Pon(pc, p, "rev_fin")
              /\ UNCHANGED handles
    /\ UNCHANGED <<vars_main, vars_reg, puertos, chip, vars_glob,
                   vars_loc, vars_ll, tomados, lock_ref, open_sessions>>
    /\ UNCHANGED vars_ext

\* revisar_puerto, lines 638-655: AT; on OK the port is appended to the list
\* of live modems and the modem restarted; the handle is closed.
revisar_puerto_io(p) ==
    /\ pc[p] = "rev_io"
    /\ \E ok \in BOOLEAN :
         modems_activos' = IF ok THEN Insertar(modems_activos, p) ELSE modems_activos
    /\ handles' = Pon(handles, p, handles[p] - 1)
    /\ pc' = Pon(pc, p, "rev_fin")
    /\ UNCHANGED <<m_pc, contador, lotes, i_lote, intento, arrancados, vars_reg,
                   puertos, chip, vars_glob, vars_loc, vars_ll, tomados,
                   lock_ref, open_sessions>>
    /\ UNCHANGED vars_ext

\* ================================================================= main
\* A thread that has ended: returned, or ended by an exception.
Terminado(p) == pc[p] \in {"fin", "muerto", "rev_fin", "eph_fin"}

Vivos == {p \in puertos : pc[p] # "none"}

Rango(sq) == {sq[k] : k \in DOMAIN sq}

Min(a, b) == IF a < b THEN a ELSE b

\* Thread(target=..., args=(puerto,)).start() for every port of S, no other
\* thread being alive.
Arrancar(S, etiqueta) == [p \in DOMAIN pc |-> IF p \in S THEN etiqueta ELSE "none"]

\* hilo.join() for every thread: the threads are gone, with their locals.
Juntar ==
    /\ iccid' = [p \in DOMAIN pc |-> 0]
    /\ consultas' = [p \in DOMAIN pc |-> 0]
    /\ intentos' = [p \in DOMAIN pc |-> 0]
    /\ ciclos' = [p \in DOMAIN pc |-> 0]
    /\ ussd' = [p \in DOMAIN pc |-> 0]
    /\ numero_obtenido' = [p \in DOMAIN pc |-> Ninguno]
    /\ leido' = [p \in DOMAIN pc |-> {}]
    /\ excepcion' = [p \in DOMAIN pc |-> FALSE]
    /\ ult_falla' = [p \in DOMAIN pc |-> FALSE]
    /\ ult_resp' = [p \in DOMAIN pc |-> Ninguno]
    /\ lock_ref' = [p \in DOMAIN pc |-> 0]

\* Answers to the speed prompt (None: the 10 s timeout).
Velocidades == {"1", "2", Ninguno}

\* The split with the range stopped at the last full batch (a bug variant):
\* the ports after it are in no batch.
Lotes_sin_resto(modems, velocidad) ==
    IF velocidad = "2"
    THEN <<modems>>
    ELSE [k \in 1..(Len(modems) \div TAM_LOTE) |->
            SubSeq(modems, (k - 1) * TAM_LOTE + 1, k * TAM_LOTE)]

\* main, lines 970-978: one batch with every live modem, or batches of 10.
Lotes(modems, velocidad) ==
    IF velocidad = "2"
    THEN <<modems>>
    ELSE [k \in 1..((Len(modems) + TAM_LOTE - 1) \div TAM_LOTE) |->
            SubSeq(modems, (k - 1) * TAM_LOTE + 1, Min(k * TAM_LOTE, Len(modems)))]

\* main returns: __main__, lines 1061-1064.
FinPasada ==
    /\ contador' = contador + 1
    /\ m_pc' = IF contador + 1 < Pasadas THEN "inicio" ELSE "terminado"

\* main, lines 940-942, and validar_modems_activos, lines 660-669:
\* cargar_iccid_activados adds the identities of the listing, and one
\* revisar_puerto thread is started per detected port.
main_inicio ==
    /\ m_pc = "inicio"
    /\ iccid_activados' = iccid_activados \cup {p \in puertos : listado[p] > 0}
    /\ modems_activos' = <<>>
    /\ arrancados' = {}
    /\ pc' = Arrancar(puertos, "revisar")
    /\ m_pc' = "validar_join"
    /\ UNCHANGED <<contador, lotes, i_lote, intento, vars_reg, vars_dev,
                   sim_sin_numero, total_claro, activaciones_claro,
                   contadores_lock, sim_set_lock, listado, fallos_existe,
                   fallos_numero, vars_loc, vars_ll, tomados, lock_ref,
                   open_sessions>>
    /\ UNCHANGED vars_ext

\* validar_modems_activos, lines 670-673, and main, lines 944-990: the probes
\* are joined; with no live modem main returns; else the batches are built
\* and the workers of the first batch started.
main_validar_join ==
    /\ m_pc = "validar_join"
    /\ \A p \in puertos : pc[p] = "rev_fin"
    /\ Juntar
    /\ IF modems_activos = <<>>
       THEN /\ FinPasada
            /\ pc' = Arrancar({}, "none")
            /\ UNCHANGED <<lotes, i_lote, arrancados>>
       ELSE \E velocidad \in Velocidades :
              /\ lotes' = Lotes(modems_activos, velocidad)
              /\ i_lote' = 1
              /\ pc' = Arrancar(Rango(lotes'[1]), "enter")
              /\ arrancados' = Rango(lotes'[1])
              /\ m_pc' = "lote_join"
              /\ UNCHANGED contador
    /\ UNCHANGED <<modems_activos, intento, vars_reg, vars_dev, vars_glob, vars_ll,
                   tomados, open_sessions>>
    /\ UNCHANGED vars_ext

\* main, lines 1001-1020, at the head of `for intento in range(2)` with
\* intento = k: with ports in sim_sin_numero the set is copied and cleared
\* and one worker started per copied port; else the loop is left.
Barrido(k) ==
    IF k < MAX_REPETICIONES /\ sim_sin_numero # {}
    THEN /\ pc' = Arrancar(sim_sin_numero, "enter")
         /\ sim_sin_numero' = {}
         /\ intento' = k
         /\ m_pc' = "barrido_join"
    ELSE /\ pc' = Arrancar({}, "none")
         /\ intento' = 0
         /\ m_pc' = "opcion"
         /\ UNCHANGED sim_sin_numero

\* The batch loop without the join: the next batch is started at once.
main_lote_sin_join ==
    /\ m_pc = "lote_join"
    /\ i_lote < Len(lotes)
    /\ i_lote' = i_lote + 1
    /\ pc' = [p \in DOMAIN pc |-> IF p \in Rango(lotes[i_lote + 1]) THEN "enter"
                                  ELSE pc[p]]
    /\ arrancados' = arrancados \cup Rango(lotes[i_lote + 1])
    /\ UNCHANGED <<m_pc, contador, modems_activos, lotes, intento, vars_reg,
                   vars_dev, vars_glob, vars_loc, vars_ll, tomados, lock_ref,
                   open_sessions>>
    /\ UNCHANGED vars_ext

\* main, lines 981-1003: the workers of the batch are joined; then the next
\* batch is started, or after the last batch the sweeps begin.
main_lote_join ==
    /\ m_pc = "lote_join"
    /\ \A p \in Rango(lotes[i_lote]) : Terminado(p)
    /\ Juntar
    /\ IF i_lote < Len(lotes)
       THEN /\ i_lote' = i_lote + 1
            /\ pc' = Arrancar(Rango(lotes[i_lote + 1]), "enter")
            /\ arrancados' = arrancados \cup Rango(lotes[i_lote + 1])
            /\ UNCHANGED <<m_pc, intento, sim_sin_numero>>
       ELSE /\ Barrido(0)
            /\ UNCHANGED <<i_lote, arrancados>>
    /\ UNCHANGED <<contador, modems_activos, lotes, vars_reg, vars_dev,
                   total_claro, activaciones_claro, contadores_lock, sim_set_lock,
                   iccid_activados, listado, fallos_existe, fallos_numero,
                   vars_ll, tomados, open_sessions>>
    /\ UNCHANGED vars_ext

\* main, lines 1017-1020 and 1001-1003: the workers of the sweep are joined
\* and the loop goes to its next round.
main_barrido_join ==
    /\ m_pc = "barrido_join"
    /\ \A p \in Vivos : Terminado(p)
    /\ Juntar
    /\ Barrido(intento + 1)
    /\ UNCHANGED <<contador, modems_activos, lotes, i_lote, arrancados, vars_reg,
                   vars_dev, total_claro, activaciones_claro, contadores_lock,
                   sim_set_lock, iccid_activados, listado, fallos_existe,
                   fallos_numero, vars_ll, tomados, open_sessions>>
    /\ UNCHANGED vars_ext

\* Answers to the final prompt (None: the 30 s timeout).
Opciones == {"1", "2", "3", Ninguno}

\* main, lines 1022-1054, with repetir_proceso_sinsims, lines 591-612, and
\* borrar_mensajes_global, lines 574-584.
main_opcion ==
    /\ m_pc = "opcion"
    /\ \E opcion \in Opciones :
         CASE opcion = "1" ->
                /\ pc' = Arrancar(Rango(modems_activos), "borrar")
                /\ m_pc' = "borrar_join"
                /\ UNCHANGED <<contador, sim_sin_numero>>
           [] opcion = "2" ->
                /\ FinPasada
                /\ UNCHANGED <<pc, sim_sin_numero>>
           [] OTHER ->
                IF sim_sin_numero = {}
                THEN /\ FinPasada
                     /\ UNCHANGED <<pc, sim_sin_numero>>
                ELSE /\ pc' = Arrancar(sim_sin_numero, "enter")
                     /\ sim_sin_numero' = {}
                     /\ m_pc' = "repetir_join"
                     /\ UNCHANGED contador
    /\ UNCHANGED <<modems_activos, lotes, i_lote, intento, arrancados, vars_reg,
                   vars_dev, total_claro, activaciones_claro, contadores_lock,
                   sim_set_lock, iccid_activados, listado, fallos_existe,
                   fallos_numero, vars_loc, vars_ll, tomados, lock_ref,
                   open_sessions>>
    /\ UNCHANGED vars_ext

\* borrar_mensajes_global, lines 585-588: the deleting threads are joined.
main_borrar_join ==
    /\ m_pc = "borrar_join"
    /\ \A p \in Vivos : Terminado(p)
    /\ Juntar
    /\ pc' = Arrancar({}, "none")
    /\ FinPasada
    /\ UNCHANGED <<modems_activos, lotes, i_lote, intento, arrancados, vars_reg,
                   vars_dev, vars_glob, vars_ll, tomados, open_sessions>>
    /\ UNCHANGED vars_ext

\* repetir_proceso_sinsims, lines 613-616: the workers of the re-run are joined.
main_repetir_join ==
    /\ m_pc = "repetir_join"
    /\ \A p \in Vivos : Terminado(p)
    /\ Juntar
    /\ pc' = Arrancar({}, "none")
    /\ FinPasada
    /\ UNCHANGED <<modems_activos, lotes, i_lote, intento, arrancados, vars_reg,
                   vars_dev, vars_glob, vars_ll, tomados, open_sessions>>
    /\ UNCHANGED vars_ext

\* ======================================================== specification
\* The module-level state of lines 66-81 and empty thread locals, for n ports.
Parado(n) ==
    /\ puertos = 1..n
    /\ contador = 0
    /\ intento = 0
    /\ serial_port_locks = [p \in 1..n |-> 0]
    /\ creados = [p \in 1..n |-> 0]
    /\ tomados = {}
    /\ lock_ref = [p \in 1..n |-> 0]
    /\ open_sessions = {}
    /\ handles = [p \in 1..n |-> 0]
    /\ sim_sin_numero = {}
    /\ total_claro = 0
    /\ activaciones_claro = 0
    /\ contadores_lock = 0
    /\ sim_set_lock = 0
    /\ fallos_existe = FALSE
    /\ fallos_numero = {}
    /\ iccid = [p \in 1..n |-> 0]
    /\ consultas = [p \in 1..n |-> 0]
    /\ intentos = [p \in 1..n |-> 0]
    /\ ciclos = [p \in 1..n |-> 0]
    /\ ussd = [p \in 1..n |-> 0]
    /\ numero_obtenido = [p \in 1..n |-> Ninguno]
    /\ leido = [p \in 1..n |-> {}]
    /\ excepcion = [p \in 1..n |-> FALSE]
    /\ ult_falla = [p \in 1..n |-> FALSE]
    /\ ult_resp = [p \in 1..n |-> Ninguno]
    /\ registro_lock = 0

\* No pattern evaluation in progress.
SinPatrones ==
    /\ contenido = <<>>
    /\ pat_pc = "none"
    /\ numero_texto = <<>>
    /\ numero_pdu = <<>>

\* No extractor call in progress.
SinAlmacen ==
    /\ almacen = <<>>
    /\ sc_pc = "none"
    /\ zona = 0
    /\ pendientes = <<>>
    /\ llamada = 0
    /\ devuelto = <<>>
    /\ portador = <<>>
    /\ cmgd = <<>>
    /\ escaneados = <<>>
    /\ listados = 0

\* No batch split looked at alone.
SinParticion == vel = Ninguno

\* No sincronizar run.
SinSincronizar ==
    /\ archivo_local = <<>>
    /\ claro_numbers = <<>>
    /\ unicos = {}
    /\ registros_nuevos = <<>>
    /\ sinc_pc = "none"
    /\ i_sinc = 0
    /\ hilos_lote = {}
    /\ resultado_queue = <<>>

SinExtractor == SinPatrones /\ SinAlmacen /\ SinParticion /\ SinSincronizar

SinLotes ==
    /\ lotes = <<>>
    /\ i_lote = 0
    /\ arrancados = {}

SinLlamadores ==
    /\ ll_pc = <<>>
    /\ ll_puerto = <<>>
    /\ ll_lock = <<>>

\* The SIM of a port, as the program can tell it: its operator and whether a
\* line of an earlier run lists it.
Clase(ch, li, p) == (IF ch[p] = "Claro" THEN 0 ELSE 2) + li[p]

\* The state at process start, before the first main(): the listing of
\* earlier runs may exist.  Ports are interchangeable, so the SIMs are taken
\* in one order only.
Init ==
    /\ SinExtractor
    /\ iccid_activados = {}
    /\ Parado(NumPuertos)
    /\ SinLotes
    /\ SinLlamadores
    /\ chip \in [1..NumPuertos -> {"Claro", "Desconocido"}]
    /\ listado \in [1..NumPuertos -> {0, 1}]
    /\ \A p \in 1..(NumPuertos - 1) : Clase(chip, listado, p) <= Clase(chip, listado, p + 1)
    /\ m_pc = "inicio"
    /\ modems_activos = <<>>
    /\ pc = [p \in 1..NumPuertos |-> "none"]

\* The steps of a procesar_puerto thread, lines 888-930.
Trabajador(p) ==
    \/ ModemSession_enter_lock(p)
    \/ ModemSession_enter_acquire(p)
    \/ ModemSession_enter_open(p)
    \/ obtener_iccid(p)
    \/ total_acquire(p)
    \/ total_inc(p)
    \/ activar_chip(p)
    \/ leer_sms(p)
    \/ leer_sms_filtrar_leer(p)
    \/ leer_sms_filtrar_escribir(p)
    \/ leer_sms_modo_pdu(p)
    \/ guardar_resultado(p)
    \/ activ_acquire(p)
    \/ activ_inc(p)
    \/ set_acquire(p)
    \/ set_add(p)
    \/ fin_ciclo(p)
    \/ ModemSession_exit_close(p)
    \/ ModemSession_exit_pop(p)
    \/ ModemSession_exit_release(p)

\* The steps of the borrar_mensajes_modem and revisar_puerto threads.
Auxiliar(p) ==
    \/ borrar_mensajes_modem(p)
    \/ enviar_comando_acquire(p)
    \/ enviar_comando_open(p)
    \/ enviar_comando_io(p)
    \/ revisar_puerto_open(p)
    \/ revisar_puerto_io(p)

Principal ==
    \/ main_inicio
    \/ main_validar_join
    \/ main_lote_join
    \/ main_barrido_join
    \/ main_opcion
    \/ main_borrar_join
    \/ main_repetir_join

Next ==
    \/ Principal
    \/ \E p \in puertos : Trabajador(p)
    \/ \E p \in puertos : Auxiliar(p)

Spec == Init /\ [][Next]_vars

\* ------------------------------------------------ one batch, with fairness
\* The first batch of the first pass, every detected port live, its workers
\* just started (main, lines 985-990); cargar_iccid_activados (line 940) has
\* loaded the identities of the listing.
InitTanda ==
    /\ SinExtractor
    /\ Parado(NumPuertos)
    /\ SinLlamadores
    /\ chip \in [1..NumPuertos -> {"Claro", "Desconocido"}]
    /\ listado \in [1..NumPuertos -> {0, 1}]
    /\ iccid_activados = {p \in 1..NumPuertos : listado[p] > 0}
    /\ m_pc = "lote_join"
    /\ modems_activos = [k \in 1..NumPuertos |-> k]
    /\ lotes = <<[k \in 1..NumPuertos |-> k]>>
    /\ i_lote = 1
    /\ arrancados = 1..NumPuertos
    /\ pc = [p \in 1..NumPuertos |-> "enter"]

NextTanda == \E p \in puertos : Trabajador(p)

\* A step of the thread of p that is no device command and no sleep.
Cpu(p) == pc[p] \notin EnDispositivo /\ Trabajador(p)

\* The thread scheduler runs every thread that can take a step.  The device
\* of port 1 may stop answering for good (no fairness on its device steps);
\* the devices of the other ports answer.
Justicia ==
    /\ \A p \in 1..NumPuertos : WF_vars(Cpu(p))
    /\ \A q \in 2..NumPuertos : WF_vars(Trabajador(q))

SpecTanda == InitTanda /\ [][NextTanda]_vars /\ Justicia

\* ------------------------------------------- one port, the whole of main
\* The process with one detected port, from its start (lines 1057-1064).
InitUno ==
    /\ SinExtractor
    /\ iccid_activados = {}
    /\ Parado(1)
    /\ SinLotes
    /\ SinLlamadores
    /\ chip \in [1..1 -> {"Claro", "Desconocido"}]
    /\ listado \in [1..1 -> {0, 1}]
    /\ m_pc = "inicio"
    /\ modems_activos = <<>>
    /\ pc = [p \in 1..1 |-> "none"]

\* Every device command returns, every open succeeds or raises, and the
\* scheduler runs a thread that can take a step.
SpecUno == InitUno /\ [][Next]_vars /\ WF_vars(Next)

\* --------------------------------------------------------- batching model
\* procesar_puerto, lines 888-930, from thread start to thread end as one
\* step: only the life of the thread is kept.
procesar_puerto(p) ==
    /\ pc[p] = "enter"
    /\ pc' = Pon(pc, p, "fin")
    /\ UNCHANGED <<vars_main, vars_reg, vars_dev, vars_glob, vars_loc, vars_ll,
                   tomados, lock_ref, open_sessions>>
    /\ UNCHANGED vars_ext

\* main after validar_modems_activos returned n live modems (line 942), the
\* probe threads ended and not yet joined.
InitLotes ==
    /\ SinExtractor
    /\ iccid_activados = {}
    /\ \E n \in 0..MaxVivos :
        /\ Parado(n)
        /\ SinLotes
        /\ SinLlamadores
        /\ chip = [p \in 1..n |-> "Claro"]
        /\ listado = [p \in 1..n |-> 0]
        /\ m_pc = "validar_join"
        /\ modems_activos = [k \in 1..n |-> k]
        /\ pc = [p \in 1..n |-> "rev_fin"]

NextLotes ==
    \/ main_validar_join
    \/ main_lote_join
    \/ \E p \in puertos : procesar_puerto(p)

SpecLotes == InitLotes /\ [][NextLotes]_vars

\* ------------------------------------------------ the batch split, alone
\* Most live modems of the split looked at alone.
MaxModems == 26

\* main, lines 962-978: the speed prompt is answered and the list of batches
\* is built from the live modems.
main_lotes ==
    /\ m_pc = "velocidad"
    /\ \E velocidad \in Velocidades :
         /\ vel' = velocidad
         /\ lotes' = Lotes(modems_activos, velocidad)
    /\ m_pc' = "lotes"
    /\ UNCHANGED <<contador, modems_activos, i_lote, intento, arrancados, vars_reg,
                   vars_dev, vars_glob, vars_loc, vars_ll, pc, tomados, lock_ref,
                   open_sessions>>
    /\ UNCHANGED <<vars_pat, vars_sms, vars_sinc>>

\* main at the speed prompt (line 962): the live modems are the ports a..b
\* of MaxModems detected ports, in port order.
InitParticion ==
    /\ SinPatrones
    /\ SinAlmacen
    /\ SinSincronizar
    /\ vel = Ninguno
    /\ iccid_activados = {}
    /\ Parado(MaxModems)
    /\ SinLotes
    /\ SinLlamadores
    /\ chip = [p \in 1..MaxModems |-> "Claro"]
    /\ listado = [p \in 1..MaxModems |-> 0]
    /\ m_pc = "velocidad"
    /\ \E a \in 1..MaxModems, b \in 1..MaxModems :
         /\ a <= b
         /\ modems_activos = [k \in 1..(b - a + 1) |-> a + k - 1]
    /\ pc = [p \in 1..MaxModems |-> "none"]

NextParticion == main_lotes

SpecParticion == InitParticion /\ [][NextParticion]_vars

\* --------------------------------------------------------- registry model
\* A thread calls _get_port_lock(puerto), line 101.
get_port_lock_llamar(c) ==
    /\ ll_pc[c] = "libre"
    /\ \E x \in puertos : ll_puerto' = Pon(ll_puerto, c, x)
    /\ ll_lock' = Pon(ll_lock, c, 0)
    /\ ll_pc' = Pon(ll_pc, c, "with")
    /\ UNCHANGED <<vars_main, vars_reg, vars_dev, vars_glob, vars_loc,
                   registro_lock, pc, tomados, lock_ref, open_sessions>>
    /\ UNCHANGED vars_ext

\* line 103: with _serial_port_locks_lock (acquire).
get_port_lock_with(c) ==
    /\ ll_pc[c] = "with"
    /\ registro_lock = 0
    /\ registro_lock' = c
    /\ ll_pc' = Pon(ll_pc, c, "dentro")
    /\ UNCHANGED <<vars_main, vars_reg, vars_dev, vars_glob, vars_loc, ll_puerto,
                   ll_lock, pc, tomados, lock_ref, open_sessions>>
    /\ UNCHANGED vars_ext

\* line 104: return _serial_port_locks.setdefault(puerto, threading.Lock()),
\* and the registry lock is released.
get_port_lock_return(c) ==
    /\ ll_pc[c] = "dentro"
    /\ registro_lock = c
    /\ LET r == setdefault(serial_port_locks, creados, ll_puerto[c]) IN
         /\ serial_port_locks' = r.reg
         /\ creados' = r.cre
         /\ ll_lock' = Pon(ll_lock, c, r.lock)
    /\ registro_lock' = 0
    /\ ll_pc' = Pon(ll_pc, c, "vuelto")
    /\ UNCHANGED <<vars_main, vars_dev, vars_glob, vars_loc, ll_puerto, pc,
                   tomados, lock_ref, open_sessions>>
    /\ UNCHANGED vars_ext

\* The caller is done with the Lock and may call again.
get_port_lock_soltar(c) ==
    /\ ll_pc[c] = "vuelto"
    /\ ll_pc' = Pon(ll_pc, c, "libre")
    /\ UNCHANGED <<vars_main, vars_reg, vars_dev, vars_glob, vars_loc, ll_puerto,
                   ll_lock, registro_lock, pc, tomados, lock_ref, open_sessions>>
    /\ UNCHANGED vars_ext

\* Threads about to call _get_port_lock, with an empty registry (line 77).
InitRegistro ==
    /\ SinExtractor
    /\ iccid_activados = {}
    /\ Parado(NumPuertos)
    /\ SinLotes
    /\ chip = [p \in 1..NumPuertos |-> "Claro"]
    /\ listado = [p \in 1..NumPuertos |-> 0]
    /\ m_pc = "hilos"
    /\ modems_activos = <<>>
    /\ pc = [p \in 1..NumPuertos |-> "none"]
    /\ ll_pc = [c \in Llamadores |-> "libre"]
    /\ ll_puerto = [c \in Llamadores |-> 0]
    /\ ll_lock = [c \in Llamadores |-> 0]

NextRegistro ==
    \E c \in Llamadores :
        \/ get_port_lock_llamar(c)
        \/ get_port_lock_with(c)
        \/ get_port_lock_return(c)
        \/ get_port_lock_soltar(c)

SpecRegistro == InitRegistro /\ [][NextRegistro]_vars

\* ================================================================ claims
\* C1: in every reachable state each port has at most one open device handle,
\* and the session-less path of enviar_comando holds a handle only while no
\* ModemSession of that port is registered.
C1_UnHandlePorPuerto ==
    \A p \in puertos :
        /\ handles[p] <= 1
        /\ pc[p] \in {"eph_io"} => p \notin open_sessions

\* A port whose messages are being deleted through a freshly opened handle,
\* after its session of the batch was closed.
C1_Testigo ==
    \E p \in puertos : pc[p] = "eph_io" /\ handles[p] = 1 /\ creados[p] = 1

\* C2: when the with block of a ModemSession has been left (normally, by the
\* early return, or by an exception) the port is not in _open_sessions and its
\* lock is free.
C2_SesionCerrada ==
    \A p \in puertos :
        pc[p] = "fin" => (p \notin open_sessions /\ Libre(p, serial_port_locks[p]))

\* A worker ended by the exception raised inside its with block.
C2_Testigo ==
    \E p \in puertos : pc[p] = "fin" /\ excepcion[p] /\ serial_port_locks[p] # 0

\* C3: a worker that read its ICCID and got no number from the extractors in
\* any cycle has made exactly 3 activate-then-extract cycles when it ends, and
\* its port is in sim_sin_numero.
C3_TresCiclos ==
    \A p \in puertos :
        (pc[p] = "fin" /\ iccid[p] # 0 /\ numero_obtenido[p] = Ninguno
            /\ ~excepcion[p])
        => (ciclos[p] = 3 /\ intentos[p] = 3 /\ p \in sim_sin_numero)

\* A worker that ended exhausted.
C3_Testigo ==
    \E p \in puertos :
        /\ pc[p] = "fin" /\ iccid[p] # 0 /\ numero_obtenido[p] = Ninguno
        /\ ~excepcion[p] /\ ciclos[p] = 3 /\ p \in sim_sin_numero

\* C4, as claimed: a worker of the first batch (the set was empty when it
\* started) that got its number in cycle 2 ends with its port outside
\* sim_sin_numero.
C4_ExitoEnCiclo2 ==
    \A p \in puertos :
        (m_pc = "lote_join" /\ contador = 0 /\ i_lote = 1 /\ pc[p] = "fin"
            /\ numero_obtenido[p] # Ninguno /\ ciclos[p] = 2)
        => p \notin sim_sin_numero

\* C5: once the worker holds a number it makes no further activate or extract
\* step for as long as it lives: no activar_chip call, no USSD request, no
\* listing.
C5_SinCicloTrasNumero ==
    [][\A p \in puertos :
          (numero_obtenido[p] # Ninguno /\ numero_obtenido'[p] # Ninguno)
          => /\ ciclos'[p] = ciclos[p]
             /\ ussd'[p] = ussd[p]
             /\ pc'[p] \notin {"activar", "leer_sms", "filtrar_leer",
                               "filtrar_escribir", "pdu"}]_vars

\* A worker that ended with the number of its second cycle.
C5_Testigo ==
    \E p \in puertos :
        pc[p] = "fin" /\ numero_obtenido[p] # Ninguno /\ ciclos[p] = 2

\* C6: while the batches run, a port whose worker has been started has every
\* worker of every earlier batch ended.
C6_LotesEnOrden ==
    m_pc = "lote_join" =>
        \A j \in 1..Len(lotes) : \A q \in Rango(lotes[j]) :
            q \in arrancados =>
                \A i \in 1..(j - 1) : \A p \in Rango(lotes[i]) :
                    p \in arrancados /\ pc[p] \in {"none", "fin", "muerto"}

\* The second batch running after a first batch of 10.
C6_Testigo ==
    /\ m_pc = "lote_join" /\ i_lote = 2 /\ Len(lotes[1]) = TAM_LOTE
    /\ \E q \in Rango(lotes[2]) : pc[q] = "enter"
    /\ \E q \in Rango(lotes[2]) : pc[q] = "fin"

\* C7, as claimed: when the workers of a sweep have all ended, every port of
\* sim_sin_numero is one whose worker of that sweep ended without a number.
C7_SoloLosQueFallan ==
    (m_pc = "barrido_join" /\ \A p \in Vivos : Terminado(p))
    => \A p \in sim_sin_numero : pc[p] = "fin" /\ numero_obtenido[p] = Ninguno

\* C8: a call of enviar_comando that hit an I/O exception returned "" and let
\* no exception out; a thread back from the session-less path has released
\* the port lock.
C8_FalloDaVacio ==
    \A p \in puertos :
        /\ ult_falla[p] => (ult_resp[p] = "" /\ ~excepcion[p])
        /\ pc[p] = "eph_fin" => (Libre(p, lock_ref[p]) /\ ~excepcion[p])

\* A session-less call that failed, and one that answered.
C8_Testigo ==
    /\ \E p \in puertos : pc[p] = "eph_fin" /\ ult_falla[p] /\ lock_ref[p] # 0
    /\ \E p \in puertos : pc[p] = "eph_fin" /\ ~ult_falla[p] /\ ult_resp[p] = "OK"

\* C9: the counters lock and the set lock are never held in a device command
\* or a sleep, a worker waits only for the lock of its own port, and whatever
\* the worker of port 1 does (stalled in its device or ended by a failure),
\* the worker of every other port of the batch ends.
C9_SinBloqueoEntrePuertos ==
    /\ [](\A p \in puertos :
            /\ contadores_lock = p => pc[p] \notin EnDispositivo
            /\ sim_set_lock = p => pc[p] \notin EnDispositivo
            /\ pc[p] = "enter_acquire" => lock_ref[p] = serial_port_locks[p])
    /\ \A q \in 2..NumPuertos : <>(pc[q] \in {"fin", "muerto"})

\* The worker of port 1 inside a device command, the counters lock free, and
\* the worker of port 2 ended.
C9_Testigo ==
    /\ pc[1] \in {"iccid", "leer_sms", "pdu"}
    /\ \E q \in 2..NumPuertos : pc[q] = "fin" /\ intentos[q] = 3

\* C10: every caller gets the Lock the registry holds for its port, so two
\* callers of one port hold the same Lock; the registry stores at most one
\* Lock per port and never replaces or drops it.
C10_MismoLock ==
    /\ \A x \in puertos : creados[x] <= 1 /\ serial_port_locks[x] = creados[x]
    /\ \A c \in DOMAIN ll_pc :
          ll_pc[c] = "vuelto" =>
              /\ ll_lock[c] # 0
              /\ ll_lock[c] = serial_port_locks[ll_puerto[c]]
    /\ \A c, d \in DOMAIN ll_pc :
          (ll_pc[c] = "vuelto" /\ ll_pc[d] = "vuelto" /\ ll_puerto[c] = ll_puerto[d])
          => ll_lock[c] = ll_lock[d]

\* Two callers back with the Lock of one port while a third, which asked for
\* the same port, is still waiting for the registry lock.
C10_Testigo ==
    \E c, d, e \in DOMAIN ll_pc :
        /\ c # d /\ c # e /\ d # e
        /\ ll_pc[c] = "vuelto" /\ ll_pc[d] = "vuelto" /\ ll_pc[e] = "with"
        /\ ll_puerto[c] = ll_puerto[d] /\ ll_puerto[e] = ll_puerto[c]

\* ================================================ number patterns (pure)
\* A listing or a message body is a sequence of fragments separated by ", ":
\*   frase   "Tu numero es <d>"      corrida  "<d>"      mas  "+<d>"
\*   url     "https://fif.clarovtrcloud.com/aod/form?t=<d>"   otro  "hola"
\* where <d> is a run of digits.
MaxFragmentos == 2

Corridas == { <<9, 1, 2, 3, 4, 5, 6, 7, 8>>, <<9, 8, 7, 6, 5, 4, 3, 2, 1>>,
              <<1, 2, 3>>, <<5, 6, 9, 1, 1, 1, 1, 2, 2, 2, 2>> }

Fragmentos ==
    {[t |-> k, d |-> c] : k \in {"frase", "corrida", "mas", "url"}, c \in Corridas}
        \cup {[t |-> "otro", d |-> <<>>]}

Textos == UNION {[1..n -> Fragmentos] : n \in 1..MaxFragmentos}

\* The least element of a non-empty set of numbers.
Primero(S) == CHOOSE i \in S : \A j \in S : i <= j

\* Python's g[-8:].
Ultimos8(g) == IF Len(g) <= 8 THEN g ELSE SubSeq(g, Len(g) - 7, Len(g))

\* The slice taken one digit too long, g[-9:] (a bug variant).
Formato_nueve(g) ==
    <<5, 6, 9>> \o (IF Len(g) <= 9 THEN g ELSE SubSeq(g, Len(g) - 8, Len(g)))

\* f"569{g[-8:]}", lines 403 and 761.
Formato(g) == <<5, 6, 9>> \o Ultimos8(g)

\* Places of a digit run where "569" is followed by 8 digits.
Lugares569(d) ==
    {i \in 1..Len(d) : i + 10 <= Len(d) /\ d[i] = 5 /\ d[i + 1] = 6 /\ d[i + 2] = 9}

\* patrones_numeros with the bare run tried first (a bug variant).
PatronesNumeros_corrida_primero ==
    <<"nueve", "frase", "mas569e", "569e", "mas569", "569", "frase_amplia">>

\* patrones_numeros, lines 736-744, in list order.
PatronesNumeros ==
    <<"frase", "nueve", "mas569e", "569e", "mas569", "569", "frase_amplia">>

\* group(1) of the leftmost match of a text-mode pattern inside fragment f,
\* spaces removed (line 760); <<>>: the pattern does not match there.
Grupo(patron, f) ==
    CASE patron \in {"frase", "frase_amplia"} ->
            IF f.t = "frase" THEN f.d ELSE <<>>
      [] patron = "nueve" ->
            IF f.t # "otro" /\ Len(f.d) = 9 THEN f.d ELSE <<>>
      [] patron \in {"mas569e", "mas569"} ->
            IF f.t = "mas" /\ 1 \in Lugares569(f.d) THEN SubSeq(f.d, 4, 11) ELSE <<>>
      [] patron \in {"569e", "569"} ->
            IF Lugares569(f.d) # {}
            THEN SubSeq(f.d, Primero(Lugares569(f.d)) + 3, Primero(Lugares569(f.d)) + 10)
            ELSE <<>>

\* re.search(patron, respuesta): the leftmost match in the text.
Buscar(patron, txt) ==
    LET S == {i \in DOMAIN txt : Grupo(patron, txt[i]) # <<>>} IN
    IF S = {} THEN <<>> ELSE Grupo(patron, txt[Primero(S)])

\* leer_sms, lines 756-769, for a Claro chip and one listing: the first
\* pattern of the list that matches gives the number; with none, the URL.
leer_sms_numero(txt) ==
    LET K == {k \in DOMAIN PatronesNumeros : Buscar(PatronesNumeros[k], txt) # <<>>}
        U == {i \in DOMAIN txt : txt[i].t = "url"}
    IN  IF K # {} THEN Formato(Buscar(PatronesNumeros[Primero(K)], txt))
        ELSE IF U # {} THEN Formato(txt[Primero(U)].d)
        ELSE <<>>

\* group(1) of the two patterns of extraer_numero_desde_contenido, lines
\* 396-399: a whole run "9dddddddd" or "569dddddddd" (with or without "+"),
\* and the phrase followed by 9 digits.
GrupoPdu(k, f) ==
    IF k = 1
    THEN IF f.t # "otro" /\ Len(f.d) = 9 /\ f.d[1] = 9 THEN SubSeq(f.d, 2, 9)
         ELSE IF f.t # "otro" /\ Len(f.d) = 11 /\ 1 \in Lugares569(f.d)
              THEN SubSeq(f.d, 4, 11)
         ELSE <<>>
    ELSE IF f.t = "frase" /\ Len(f.d) >= 9 THEN SubSeq(f.d, 1, 9) ELSE <<>>

\* extraer_numero_desde_contenido, lines 391-404.
extraer_numero_desde_contenido(txt) ==
    LET M(k) == {i \in DOMAIN txt : GrupoPdu(k, txt[i]) # <<>>}
        K == {k \in 1..2 : M(k) # {}}
    IN  IF K = {} THEN <<>>
        ELSE Formato(GrupoPdu(Primero(K), txt[Primero(M(Primero(K)))]))

\* The program at rest, one port: the extractors are looked at alone.
SinPrograma ==
    /\ Parado(1)
    /\ SinLotes
    /\ SinLlamadores
    /\ iccid_activados = {}
    /\ listado = <<0>>
    /\ m_pc = "extractor"
    /\ modems_activos = <<>>
    /\ pc = <<"none">>

\* The pattern loop of leer_sms applied to the listing.
leer_sms_patrones ==
    /\ pat_pc = "inicio"
    /\ numero_texto' = leer_sms_numero(contenido)
    /\ pat_pc' = "texto"
    /\ UNCHANGED <<vars_prog, vars_sms, vars_lot, vars_sinc, contenido, numero_pdu>>

\* extraer_numero_desde_contenido applied to the same text.
extraer_numero ==
    /\ pat_pc = "texto"
    /\ numero_pdu' = extraer_numero_desde_contenido(contenido)
    /\ pat_pc' = "fin"
    /\ UNCHANGED <<vars_prog, vars_sms, vars_lot, vars_sinc, contenido, numero_texto>>

InitPatrones ==
    /\ SinPrograma
    /\ SinAlmacen
    /\ SinParticion
    /\ SinSincronizar
    /\ chip = <<"Claro">>
    /\ contenido \in Textos
    /\ pat_pc = "inicio"
    /\ numero_texto = <<>>
    /\ numero_pdu = <<>>

NextPatrones == leer_sms_patrones \/ extraer_numero

SpecPatrones == InitPatrones /\ [][NextPatrones]_vars

\* ============================================ extractor over the SMS store
\* The store of one modem: 3 memory zones of MaxRanuras slots, at most
\* MaxMensajes messages in all, and up to MaxLlamadas extractor calls (text
\* mode, then PDU mode) with no message arriving in between.  The modem
\* answers every listing.
MaxRanuras == 2
MaxMensajes == 3
MaxLlamadas == 2

\* line 385.
COMANDOS_MEMORIAS == <<"SM", "ME", "MT">>

\* What a stored message is to the two extractors:
\*   numero      its number shows in the text listing and in the decoded PDU
\*   ucs2        its number shows only in the decoded PDU
\*   solo_texto  a text-mode pattern matches it, the PDU patterns do not
\*   otro        no number
\*   roto        read_incoming_sms raises on its PDU
\*   truncado    its block has no PDU line or no index (lines 452-458)
Clases == {"numero", "ucs2", "solo_texto", "otro", "roto", "truncado"}
EnTexto(c) == c \in {"numero", "solo_texto"}
EnPdu(c) == c \in {"numero", "ucs2"}

Ocupadas(alm, z) == {i \in DOMAIN alm[z] : alm[z][i] # "vacio"}

\* The slots of a set in index order, as a listing gives them.
EnOrden(S) ==
    [k \in 1..Cardinality(S) |->
        CHOOSE i \in S : Cardinality({j \in S : j < i}) = k - 1]

Zonas == DOMAIN COMANDOS_MEMORIAS

Almacenes ==
    {a \in [Zonas -> [1..MaxRanuras -> Clases \cup {"vacio"}]] :
        Cardinality({x \in Zonas \X (1..MaxRanuras) :
                        a[x[1]][x[2]] # "vacio"}) <= MaxMensajes}

\* return: the call ends with result r, given by the message m.
Devolver(r, m) ==
    /\ devuelto' = Append(devuelto, r)
    /\ portador' = Append(portador, m)
    /\ sc_pc' = "vuelto"
    /\ pendientes' = <<>>
    /\ UNCHANGED zona

\* The next round of `for memoria in COMANDOS_MEMORIAS`, or `return None`
\* (line 483).
SiguienteZona ==
    IF zona < Len(COMANDOS_MEMORIAS)
    THEN /\ zona' = zona + 1
         /\ sc_pc' = "pdu_listar"
         /\ pendientes' = <<>>
         /\ UNCHANGED <<devuelto, portador>>
    ELSE Devolver(Ninguno, <<>>)

\* The next round of `for bloque in ...` (line 449).
SiguienteBloque ==
    IF Len(pendientes) > 1
    THEN /\ pendientes' = Tail(pendientes)
         /\ UNCHANGED <<sc_pc, zona, devuelto, portador>>
    ELSE SiguienteZona

\* guardar_numero_en_sim and borrar_mensaje, lines 474-475: the delete
\* command is issued when guardar_numero_en_sim saw no exception; the
\* message leaves the store unless that command was lost.
Borrar(i) ==
    \E falla_guardar, falla_borrar \in BOOLEAN :
        IF enviar_comando_resultado(falla_guardar, "OK").propaga
        THEN UNCHANGED <<cmgd, almacen>>
        ELSE /\ cmgd' = Append(cmgd, <<llamada, zona, i>>)
             /\ almacen' = IF enviar_comando_resultado(falla_borrar, "OK").resp = "OK"
                           THEN [almacen EXCEPT ![zona][i] = "vacio"]
                           ELSE almacen

\* leer_sms, lines 746-769, one round of `for memoria in memorias`: the
\* listing of the zone in text mode; for a Claro chip a matching listing ends
\* the call with the number (no AT+CMGD anywhere in leer_sms).  After the
\* last zone procesar_puerto calls leer_sms_modo_pdu (lines 908-911).
leer_sms_zona ==
    /\ sc_pc = "texto"
    /\ LET S == {i \in Ocupadas(almacen, zona) : EnTexto(almacen[zona][i])} IN
       IF chip[1] = "Claro" /\ S # {}
       THEN Devolver(NUMERO, <<zona, Primero(S)>>)
       ELSE /\ IF zona < Len(COMANDOS_MEMORIAS)
               THEN zona' = zona + 1 /\ UNCHANGED sc_pc
               ELSE zona' = 1 /\ sc_pc' = "pdu_listar"
            /\ UNCHANGED <<pendientes, devuelto, portador>>
    /\ UNCHANGED <<vars_prog, vars_pat, vars_lot, vars_sinc, almacen, llamada, cmgd, escaneados, listados>>

\* leer_sms_modo_pdu, lines 440-449: AT+CMGL=4 on the zone; without "+CMGL:"
\* the next zone, else the blocks of the listing.
leer_sms_modo_pdu_listar ==
    /\ sc_pc = "pdu_listar"
    /\ listados' = listados + 1
    /\ IF Ocupadas(almacen, zona) = {}
       THEN SiguienteZona
       ELSE /\ pendientes' = EnOrden(Ocupadas(almacen, zona))
            /\ sc_pc' = "pdu_mensaje"
            /\ UNCHANGED <<zona, devuelto, portador>>
    /\ UNCHANGED <<vars_prog, vars_pat, vars_lot, vars_sinc, almacen, llamada, cmgd, escaneados>>

\* The body of the block loop with `return numero` after the inner loop (a bug
\* variant): the rest of the listing is still decoded, and deleted on a match.
leer_sms_modo_pdu_bloque_sin_return ==
    /\ sc_pc = "pdu_mensaje"
    /\ LET i == Head(pendientes)
           c == almacen[zona][i]
           ya == Len(devuelto) = llamada
           resto == IF Len(pendientes) > 1
                    THEN /\ pendientes' = Tail(pendientes)
                         /\ UNCHANGED <<sc_pc, zona>>
                    ELSE /\ pendientes' = <<>>
                         /\ sc_pc' = "vuelto"
                         /\ UNCHANGED zona
       IN  IF c = "truncado"
           THEN /\ IF ya THEN resto /\ UNCHANGED <<devuelto, portador>>
                         ELSE SiguienteBloque
                /\ UNCHANGED <<escaneados, cmgd, almacen>>
           ELSE /\ escaneados' = Append(escaneados, <<zona, i>>)
                /\ IF EnPdu(c)
                   THEN /\ Borrar(i)
                        /\ resto
                        /\ IF ya THEN UNCHANGED <<devuelto, portador>>
                           ELSE /\ devuelto' = Append(devuelto, NUMERO)
                                /\ portador' = Append(portador, <<zona, i>>)
                   ELSE /\ IF ya THEN resto /\ UNCHANGED <<devuelto, portador>>
                                 ELSE SiguienteBloque
                        /\ UNCHANGED <<cmgd, almacen>>
    /\ UNCHANGED <<vars_prog, vars_pat, vars_lot, vars_sinc, llamada, listados>>

\* The body of the block loop with the try/except around the whole scan (a
\* bug variant): a PDU that does not decode ends the call with None.
leer_sms_modo_pdu_bloque_try_fuera ==
    /\ sc_pc = "pdu_mensaje"
    /\ LET i == Head(pendientes)
           c == almacen[zona][i]
       IN  IF c = "truncado"
           THEN /\ SiguienteBloque
                /\ UNCHANGED <<escaneados, cmgd, almacen>>
           ELSE /\ escaneados' = Append(escaneados, <<zona, i>>)
                /\ IF c = "roto"
                   THEN Devolver(Ninguno, <<>>) /\ UNCHANGED <<cmgd, almacen>>
                   ELSE IF EnPdu(c)
                   THEN Borrar(i) /\ Devolver(NUMERO, <<zona, i>>)
                   ELSE SiguienteBloque /\ UNCHANGED <<cmgd, almacen>>
    /\ UNCHANGED <<vars_prog, vars_pat, vars_lot, vars_sinc, llamada, listados>>

\* leer_sms_modo_pdu, lines 449-482, one round of the block loop: a block
\* without PDU line or index is passed over; else the PDU is decoded; a
\* decoding exception is caught and the loop goes on (479-482); a content
\* with a number is saved to the SIM, its message deleted and the number
\* returned (468-476); any other content is ignored.
leer_sms_modo_pdu_bloque ==
    /\ sc_pc = "pdu_mensaje"
    /\ LET i == Head(pendientes)
           c == almacen[zona][i]
       IN  IF c = "truncado"
           THEN /\ SiguienteBloque
                /\ UNCHANGED <<escaneados, cmgd, almacen>>
           ELSE /\ escaneados' = Append(escaneados, <<zona, i>>)
                /\ IF EnPdu(c)
                   THEN Borrar(i) /\ Devolver(NUMERO, <<zona, i>>)
                   ELSE SiguienteBloque /\ UNCHANGED <<cmgd, almacen>>
    /\ UNCHANGED <<vars_prog, vars_pat, vars_lot, vars_sinc, llamada, listados>>

\* The extractors are called again on the port (the next cycle of line 903, or
\* a later worker of the port).
otra_llamada ==
    /\ sc_pc = "vuelto"
    /\ llamada < MaxLlamadas
    /\ llamada' = llamada + 1
    /\ zona' = 1
    /\ sc_pc' = "texto"
    /\ pendientes' = <<>>
    /\ escaneados' = <<>>
    /\ listados' = 0
    /\ UNCHANGED <<vars_prog, vars_pat, vars_lot, vars_sinc, almacen, devuelto, portador, cmgd>>

InitAlmacen ==
    /\ SinPrograma
    /\ SinPatrones
    /\ SinParticion
    /\ SinSincronizar
    /\ chip \in [1..1 -> {"Claro", "Desconocido"}]
    /\ almacen \in Almacenes
    /\ sc_pc = "texto"
    /\ zona = 1
    /\ pendientes = <<>>
    /\ llamada = 1
    /\ devuelto = <<>>
    /\ portador = <<>>
    /\ cmgd = <<>>
    /\ escaneados = <<>>
    /\ listados = 0

NextAlmacen ==
    \/ leer_sms_zona
    \/ leer_sms_modo_pdu_listar
    \/ leer_sms_modo_pdu_bloque
    \/ otra_llamada

SpecAlmacen == InitAlmacen /\ [][NextAlmacen]_vars

\* C11, as claimed: whenever a device handle of port p is open, the lock the
\* registry holds for p is acquired.
C11_HandleBajoLock ==
    \A p \in puertos :
        handles[p] > 0 =>
            (serial_port_locks[p] # 0 /\ ~Libre(p, serial_port_locks[p]))

\* Lines of listadonumeros_claro.txt written for the card of port p by the
\* workers of the batch: the lines there are, less the one of an earlier run.
Guardados(p) == listado[p] - (IF p \in iccid_activados THEN 1 ELSE 0)

\* The positions of a worker after the statement at line 899, and after the
\* statement at line 918.
TrasTotal == {"activar", "leer_sms", "filtrar_leer", "filtrar_escribir", "pdu",
              "guardar", "activ_acquire", "activ_inc", "set_acquire", "set_add",
              "fin_ciclo", "exit_close", "exit_pop", "exit_release", "fin"}
TrasActivacion == {"fin_ciclo", "exit_close", "exit_pop", "exit_release", "fin"}

\* C12: a worker of the batch that ended without identity made exactly 5
\* queries, no activar_chip call and no USSD request, persisted nothing, is
\* not in sim_sin_numero, has its session unregistered and its lock free; and
\* total_claro and activaciones_claro count only workers that read an identity.
C12_SinIccid ==
    /\ \A p \in puertos :
          (pc[p] = "fin" /\ iccid[p] = 0) =>
              /\ consultas[p] = MAX_CONSULTAS_ICCID
              /\ ciclos[p] = 0 /\ ussd[p] = 0 /\ intentos[p] = 0
              /\ Guardados(p) = 0
              /\ p \notin sim_sin_numero
              /\ p \notin open_sessions
              /\ Libre(p, serial_port_locks[p])
    /\ total_claro = Cardinality({q \in puertos :
          chip[q] = "Claro" /\ iccid[q] # 0 /\ pc[q] \in TrasTotal})
    /\ activaciones_claro <= Cardinality({q \in puertos : iccid[q] # 0})

\* A worker ended after 5 queries without identity while another one, with
\* its identity, was counted.
C12_Testigo ==
    /\ \E p \in puertos : pc[p] = "fin" /\ iccid[p] = 0 /\ consultas[p] = 5
    /\ \E q \in puertos : pc[q] = "fin" /\ iccid[q] # 0
    /\ total_claro = 1

\* C13, as claimed: for a card whose ICCID is in iccid_activados the worker
\* sends no USSD request and persists no pair, and total_claro and
\* activaciones_claro are changed only by workers of other cards.
C13_ActivadoOmitido ==
    /\ \A p \in puertos :
          (iccid[p] # 0 /\ iccid[p] \in iccid_activados) =>
              (ussd[p] = 0 /\ Guardados(p) = 0)
    /\ total_claro <= Cardinality({q \in puertos : q \notin iccid_activados})
    /\ activaciones_claro <= Cardinality({q \in puertos : q \notin iccid_activados})

\* C14: in the batch, a worker has persisted its pair exactly once from the
\* moment guardar_resultado returned, and never before or again;
\* activaciones_claro is the number of Claro workers that got their number and
\* passed line 918, so a worker that ends without number adds nothing.
C14_UnaVezPorExito ==
    /\ \A p \in puertos :
          /\ Guardados(p) = (IF numero_obtenido[p] # Ninguno /\ pc[p] # "guardar"
                             THEN 1 ELSE 0)
          /\ pc[p] = "fin" =>
                Guardados(p) = (IF numero_obtenido[p] # Ninguno THEN 1 ELSE 0)
    /\ activaciones_claro = Cardinality({q \in puertos :
          chip[q] = "Claro" /\ numero_obtenido[q] # Ninguno
          /\ pc[q] \in TrasActivacion})

\* Every worker ended: one with the number of its second cycle, counted once,
\* and one without number after 3 cycles.
C14_Testigo ==
    /\ \A p \in puertos : pc[p] = "fin"
    /\ \E p \in puertos :
          numero_obtenido[p] # Ninguno /\ ciclos[p] = 2 /\ chip[p] = "Claro"
    /\ \E q \in puertos : numero_obtenido[q] = Ninguno /\ ciclos[q] = 3
    /\ activaciones_claro = 1

\* An 11-digit number beginning with 569.
EsNumero(n) ==
    /\ Len(n) = 11
    /\ SubSeq(n, 1, 3) = <<5, 6, 9>>
    /\ \A i \in DOMAIN n : n[i] \in 0..9

\* C15, as claimed: every number the text-mode patterns or
\* extraer_numero_desde_contenido return has 11 digits and begins with 569.
C15_OnceDigitos ==
    /\ numero_texto # <<>> => EsNumero(numero_texto)
    /\ numero_pdu # <<>> => EsNumero(numero_pdu)

\* C20: for a listing with a bare 9-digit run and the phrase "Tu numero es
\* 9XXXXXXXX", in either order, the text-mode patterns give 569 followed by
\* the last 8 digits of the (first) phrase, whatever the bare run is.
C20_FraseGana ==
    pat_pc \in {"texto", "fin"} =>
        \A i, j \in DOMAIN contenido :
            ( /\ contenido[i].t = "frase"
              /\ Len(contenido[i].d) = 9
              /\ contenido[i].d[1] = 9
              /\ \A h \in 1..(i - 1) : contenido[h].t # "frase"
              /\ contenido[j].t = "corrida"
              /\ Len(contenido[j].d) = 9 )
            => numero_texto = <<5, 6, 9>> \o SubSeq(contenido[i].d, 2, 9)

\* The listing "987654321, Tu numero es 912345678" gave 56912345678.
C20_Testigo ==
    /\ pat_pc = "fin"
    /\ contenido = << [t |-> "corrida", d |-> <<9, 8, 7, 6, 5, 4, 3, 2, 1>>],
                      [t |-> "frase", d |-> <<9, 1, 2, 3, 4, 5, 6, 7, 8>>] >>
    /\ numero_texto = <<5, 6, 9, 1, 2, 3, 4, 5, 6, 7, 8>>

\* The AT+CMGD commands of call k, in order.
BorradosEn(k) == SelectSeq(cmgd, LAMBDA c : c[1] = k)

\* C16: when the PDU path returns a number, the message that gave it is the
\* last one decoded in the call and the first one with a number, exactly one
\* AT+CMGD was issued in the call, for that message, and no zone after its
\* zone was listed.
C16_PrimerMensajeYVuelve ==
    (sc_pc = "vuelto" /\ listados > 0 /\ devuelto[llamada] = NUMERO) =>
        LET m == portador[llamada] IN
        /\ BorradosEn(llamada) = << <<llamada, m[1], m[2]>> >>
        /\ escaneados # <<>>
        /\ escaneados[Len(escaneados)] = m
        /\ \A k \in 1..(Len(escaneados) - 1) :
              ~EnPdu(almacen[escaneados[k][1]][escaneados[k][2]])
        /\ listados = m[1]

\* The PDU path returned the number of the first slot of the first zone,
\* with a message behind it in the listing and one with a number in the next
\* zone, both left alone.
C16_Testigo ==
    /\ sc_pc = "vuelto" /\ llamada = 1 /\ listados = 1
    /\ devuelto = <<NUMERO>> /\ portador = << <<1, 1>> >>
    /\ almacen[1][2] # "vacio"
    /\ EnPdu(almacen[2][1])
    /\ cmgd = << <<1, 1, 1>> >>

\* C17: when the PDU path returns None, the three zones were listed, every
\* message with a PDU line was decoded, messages after one that does not
\* decode included, and no message of the store carries a number the PDU
\* patterns find.
C17_SigueTrasFallo ==
    (sc_pc = "vuelto" /\ listados > 0 /\ devuelto[llamada] = Ninguno) =>
        /\ listados = Len(COMANDOS_MEMORIAS)
        /\ \A z \in Zonas : \A i \in Ocupadas(almacen, z) :
              /\ ~EnPdu(almacen[z][i])
              /\ almacen[z][i] # "truncado" =>
                    \E k \in DOMAIN escaneados : escaneados[k] = <<z, i>>

\* The PDU path returned the number of a message of the second zone after a
\* message of the first zone failed to decode.
C17_Testigo ==
    /\ sc_pc = "vuelto" /\ devuelto[llamada] = NUMERO /\ listados = 2
    /\ almacen[1][1] = "roto"
    /\ escaneados[1] = <<1, 1>>
    /\ portador[llamada][1] = 2

\* C18, as claimed: when an extractor call returns a number an AT+CMGD was
\* issued in that call for the message that gave it, and when it returns None
\* no AT+CMGD was issued in that call.
C18_BorraSiExtrae ==
    sc_pc = "vuelto" =>
        /\ devuelto[llamada] # Ninguno =>
              \E k \in DOMAIN cmgd :
                  cmgd[k] = <<llamada, portador[llamada][1], portador[llamada][2]>>
        /\ devuelto[llamada] = Ninguno => BorradosEn(llamada) = <<>>

\* C19, as claimed: the second call on the port, no message having arrived,
\* returns None and issues no AT+CMGD.
C19_SegundaLlamadaVacia ==
    (sc_pc = "vuelto" /\ llamada = 2) =>
        (devuelto[2] = Ninguno /\ BorradosEn(2) = <<>>)
\* C21, as claimed: total_claro and activaciones_claro change only while
\* contadores_lock is held, and sim_sin_numero changes (add or clear) only
\* while sim_set_lock is held.
C21_MutacionBajoLock ==
    [][ /\ (total_claro' # total_claro \/ activaciones_claro' # activaciones_claro)
            => contadores_lock # 0
        /\ sim_sin_numero' # sim_sin_numero => sim_set_lock # 0 ]_vars

\* C22: in batched mode the batches are consecutive slices of the live
\* modems, every one but the last of 10 ports, the last of 1 to 10, so that
\* every live modem is in exactly one batch and n modems give ceil(n/10)
\* batches (25 give 3); in single-batch mode one batch holds them all.
C22_Particion ==
    m_pc = "lotes" =>
        LET n == Len(modems_activos)
            b == Len(lotes)
        IN  IF vel = "2"
            THEN lotes = <<modems_activos>>
            ELSE /\ b * TAM_LOTE >= n
                 /\ (b - 1) * TAM_LOTE < n
                 /\ \A k \in 1..(b - 1) : Len(lotes[k]) = TAM_LOTE
                 /\ Len(lotes[b]) \in 1..TAM_LOTE
                 /\ (b - 1) * TAM_LOTE + Len(lotes[b]) = n
                 /\ \A k \in 1..b : \A j \in 1..Len(lotes[k]) :
                        lotes[k][j] = modems_activos[(k - 1) * TAM_LOTE + j]
                 /\ n = 25 => b = 3

\* 25 live modems split into batches of 10, 10 and 5.
C22_Testigo ==
    /\ m_pc = "lotes"
    /\ vel # "2"
    /\ Len(modems_activos) = 25
    /\ Len(lotes) = 3
    /\ Len(lotes[3]) = 5

\* 8-digit suffixes, two digits tried at each place.
Sufijos == {<<a, b, c, d, e, f, g, h>> : a \in {5, 9}, b \in {0, 6}, c \in {0, 9},
            d \in {1, 5}, e \in {6, 9}, f \in {0, 5}, g \in {6, 9}, h \in {0, 9}}

\* C23: "569" followed by the last 8 characters of a string 569XXXXXXXX is
\* that string, for every 8-digit suffix; and a text that is such a string
\* comes back unchanged from both extractors.
C23_Idempotente ==
    /\ \A x \in Sufijos : Formato(<<5, 6, 9>> \o x) = <<5, 6, 9>> \o x
    /\ pat_pc = "fin" =>
          /\ Len(numero_texto) = 11 => Formato(numero_texto) = numero_texto
          /\ Len(numero_pdu) = 11 => Formato(numero_pdu) = numero_pdu
          /\ ( Len(contenido) = 1 /\ contenido[1].t = "corrida"
               /\ Len(contenido[1].d) = 11 /\ 1 \in Lugares569(contenido[1].d) )
             => numero_texto = contenido[1].d /\ numero_pdu = contenido[1].d

\* The text "56911112222" went through both extractors and came back as it was.
C23_Testigo ==
    /\ pat_pc = "fin"
    /\ contenido = << [t |-> "corrida", d |-> <<5, 6, 9, 1, 1, 1, 1, 2, 2, 2, 2>>] >>
    /\ numero_texto = <<5, 6, 9, 1, 1, 1, 1, 2, 2, 2, 2>>
    /\ numero_pdu = numero_texto

\* ================================================== sincronizar_bbdd.py
\* Records are pairs <<numero, iccid>> over two numbers and two identities.
\* The table claro_numbers lives in the database server: the repository does
\* not define its schema, so any set of its two columns may carry a unique
\* index (the workers expect IntegrityError, line 89).
MaxLineas == 3
MaxFilas == 1
MAX_HILOS == 20

Registros == {1, 2} \X {1, 2}

Columnas == {"numero", "iccid"}

\* Sequences of at most n records.
Listas(n) == UNION {[1..k -> Registros] : k \in 0..n}

\* obtener_registros_existentes, lines 46-63: the numbers and the identities
\* of the rows; two empty sets when the query raises.
obtener_registros_existentes(filas, falla) ==
    IF falla THEN [numeros |-> {}, iccids |-> {}]
    ELSE [numeros |-> {filas[k][1] : k \in DOMAIN filas},
          iccids |-> {filas[k][2] : k \in DOMAIN filas}]

\* sincronizar, lines 186-196: the records of the file, in file order, whose
\* number and identity are both absent from the sets read from the table.
Filtrar(locales, existentes) ==
    SelectSeq(locales, LAMBDA r : r[1] \notin existentes.numeros
                                  /\ r[2] \notin existentes.iccids)

\* The INSERT of line 75 breaks a unique index of the table.
IntegrityError(r, filas) ==
    \/ "numero" \in unicos /\ \E k \in DOMAIN filas : filas[k][1] = r[1]
    \/ "iccid" \in unicos /\ \E k \in DOMAIN filas : filas[k][2] = r[2]

\* insertar_registros_paralelo, lines 115-125: the indices of the batch that
\* starts at index i (0-based) of registros_nuevos.
Lote(i, total) == {k \in 1..total : i < k /\ k <= i + MAX_HILOS}

\* sincronizar, lines 167-211, and insertar_registros_paralelo, lines 99-125:
\* the file is read, the table queried, the records filtered, and the worker
\* threads of the first batch started.  No record in the file, a failed
\* connection or nothing left by the filter end the run.
sincronizar ==
    /\ sinc_pc = "inicio"
    /\ \E conecta \in BOOLEAN, falla \in BOOLEAN :
         LET nuevos == Filtrar(archivo_local,
                               obtener_registros_existentes(claro_numbers, falla))
         IN  IF archivo_local = <<>> \/ ~conecta \/ nuevos = <<>>
             THEN /\ sinc_pc' = "fin"
                  /\ registros_nuevos' = IF archivo_local = <<>> \/ ~conecta
                                         THEN <<>> ELSE nuevos
                  /\ UNCHANGED <<i_sinc, hilos_lote>>
             ELSE /\ registros_nuevos' = nuevos
                  /\ i_sinc' = 0
                  /\ hilos_lote' = Lote(0, Len(nuevos))
                  /\ sinc_pc' = "lote_join"
    /\ UNCHANGED <<archivo_local, claro_numbers, unicos, resultado_queue>>
    /\ UNCHANGED <<vars_prog, vars_pat, vars_sms, vars_lot>>

\* insertar_registro_worker, lines 66-96, for record k of registros_nuevos:
\* its own connection, the INSERT and the commit as one transaction; the
\* result is put on the queue.
insertar_registro_worker(k) ==
    /\ sinc_pc = "lote_join"
    /\ k \in hilos_lote
    /\ LET r == registros_nuevos[k] IN
       \E conecta \in BOOLEAN :
         IF ~conecta
         THEN /\ resultado_queue' = Append(resultado_queue, <<"error", r[1], r[2]>>)
              /\ UNCHANGED claro_numbers
         ELSE IF IntegrityError(r, claro_numbers)
         THEN /\ resultado_queue' = Append(resultado_queue, <<"duplicado", r[1], r[2]>>)
              /\ UNCHANGED claro_numbers
         ELSE /\ claro_numbers' = Append(claro_numbers, r)
              /\ resultado_queue' = Append(resultado_queue, <<"exito", r[1], r[2]>>)
    /\ hilos_lote' = hilos_lote \ {k}
    /\ UNCHANGED <<archivo_local, unicos, registros_nuevos, sinc_pc, i_sinc>>
    /\ UNCHANGED <<vars_prog, vars_pat, vars_sms, vars_lot>>

\* insertar_registros_paralelo, lines 127-133 and 115: the threads of the
\* batch are joined; the next batch is started, or the run ends.
insertar_registros_paralelo_join ==
    /\ sinc_pc = "lote_join"
    /\ hilos_lote = {}
    /\ IF i_sinc + MAX_HILOS < Len(registros_nuevos)
       THEN /\ i_sinc' = i_sinc + MAX_HILOS
            /\ hilos_lote' = Lote(i_sinc + MAX_HILOS, Len(registros_nuevos))
            /\ UNCHANGED sinc_pc
       ELSE /\ sinc_pc' = "fin"
            /\ UNCHANGED <<i_sinc, hilos_lote>>
    /\ UNCHANGED <<archivo_local, claro_numbers, unicos, registros_nuevos,
                   resultado_queue>>
    /\ UNCHANGED <<vars_prog, vars_pat, vars_sms, vars_lot>>

\* The script is started: a file of up to MaxLineas records (repeated lines
\* included) and a table of up to MaxFilas rows.
InitSincronizar ==
    /\ SinPrograma
    /\ SinPatrones
    /\ SinAlmacen
    /\ SinParticion
    /\ chip = <<"Claro">>
    /\ archivo_local \in Listas(MaxLineas)
    /\ claro_numbers \in Listas(MaxFilas)
    /\ unicos \in SUBSET Columnas
    /\ registros_nuevos = <<>>
    /\ sinc_pc = "inicio"
    /\ i_sinc = 0
    /\ hilos_lote = {}
    /\ resultado_queue = <<>>

NextSincronizar ==
    \/ sincronizar
    \/ \E k \in 1..MaxLineas : insertar_registro_worker(k)
    \/ insertar_registros_paralelo_join

SpecSincronizar == InitSincronizar /\ [][NextSincronizar]_vars

\* The records this run inserted, in commit order.
Insertados == SelectSeq(resultado_queue, LAMBDA x : x[1] = "exito")

\* C24, as claimed: when sincronizar has ended, no inserted record has a
\* number or an identity that was in the table before the run, and no two
\* inserted records share a number or an identity.
C24_SoloUnicos ==
    sinc_pc = "fin" =>
        LET antes == Len(claro_numbers) - Len(Insertados) IN
        /\ \A i \in DOMAIN Insertados : \A k \in 1..antes :
                /\ claro_numbers[k][1] # Insertados[i][2]
                /\ claro_numbers[k][2] # Insertados[i][3]
        /\ \A i \in DOMAIN Insertados : \A j \in DOMAIN Insertados :
                i < j => /\ Insertados[i][2] # Insertados[j][2]
                         /\ Insertados[i][3] # Insertados[j][3]

\* The port lock of p is held (by the thread of p).
LockTomado(p) == <<p, lock_ref[p]>> \in tomados

\* C25: a port registered in _open_sessions has its port lock held; and on
\* scope exit, also with an exception out of the block, the handle is closed
\* first (the port still registered, the lock held), then the registration
\* removed (the lock still held), then the lock released.
C25_OrdenDeSalida ==
    \A p \in puertos :
        /\ p \in open_sessions => LockTomado(p)
        /\ excepcion[p] => pc[p] \in {"exit_close", "exit_pop", "exit_release", "fin"}
        /\ pc[p] = "exit_close" => handles[p] = 1 /\ p \in open_sessions /\ LockTomado(p)
        /\ pc[p] = "exit_pop" => handles[p] = 0 /\ p \in open_sessions /\ LockTomado(p)
        /\ pc[p] = "exit_release" => handles[p] = 0 /\ p \notin open_sessions /\ LockTomado(p)
        /\ pc[p] = "fin" => handles[p] = 0 /\ p \notin open_sessions /\ ~LockTomado(p)

\* A block left by an exception: handle closed, registration removed, the
\* lock not yet released.
C25_Testigo ==
    \E p \in puertos :
        /\ excepcion[p]
        /\ pc[p] = "exit_release"
        /\ handles[p] = 0
        /\ p \notin open_sessions
        /\ LockTomado(p)

\* C26, as claimed: the +569-prefixed forms are tried before the bare
\* 9-digit form, so a listing without the phrase that holds "+569XXXXXXXX"
\* and a different bare 9-digit run gives 569XXXXXXXX.
C26_Mas569AntesQueNueve ==
    pat_pc \in {"texto", "fin"} =>
        \A i, j \in DOMAIN contenido :
            ( /\ contenido[i].t = "mas"
              /\ Len(contenido[i].d) = 11
              /\ 1 \in Lugares569(contenido[i].d)
              /\ contenido[j].t = "corrida"
              /\ Len(contenido[j].d) = 9
              /\ \A h \in DOMAIN contenido : contenido[h].t # "frase" )
            => numero_texto = <<5, 6, 9>> \o SubSeq(contenido[i].d, 4, 11)

\* C27: in every cycle the text-mode extractor starts right after the
\* activation request of that cycle, and the PDU-mode extractor starts only
\* out of a text-mode extractor that returned no number, and runs with no
\* number obtained, in the cycle of that activation request.
C27_OrdenDelCiclo ==
    [][ \A p \in puertos :
          /\ (pc'[p] = "leer_sms" /\ pc[p] # "leer_sms")
                => pc[p] = "activar" /\ ciclos'[p] = ciclos[p] + 1
          /\ (pc'[p] = "pdu" /\ pc[p] # "pdu")
                => pc[p] = "leer_sms" /\ numero_obtenido'[p] = Ninguno
          /\ (pc[p] = "pdu" /\ pc'[p] # "pdu")
                => numero_obtenido[p] = Ninguno /\ ciclos[p] = intentos[p] + 1 ]_vars

\* The PDU-mode extractor about to run in the second cycle of a worker,
\* after the activation request and a text-mode extraction without a number.
C27_Testigo ==
    \E p \in puertos :
        /\ pc[p] = "pdu"
        /\ intentos[p] = 1
        /\ ciclos[p] = 2
        /\ numero_obtenido[p] = Ninguno

\* C28, as claimed: once a failed open has propagated out of __enter__ (the
\* thread has ended with it), the port lock is free and the port is not in
\* _open_sessions.
C28_AperturaFallidaSuelta ==
    \A p \in puertos :
        pc[p] = "muerto" => ~LockTomado(p) /\ p \notin open_sessions

\* C29, as claimed: with every device command returning and every open
\* succeeding or raising, the orchestrator passes complete: the process
\* reaches the end of its last main().
C29_Termina == <>(m_pc = "terminado")

\* C30, as claimed: during the batches and sweeps of the first main() call
\* each port has its pair persisted at most once and the activated counter
\* has grown by at most 1 per port.
C30_ResueltoUnaVez ==
    (contador = 0 /\ m_pc \in {"lote_join", "barrido_join", "opcion"}) =>
        /\ \A p \in puertos : Guardados(p) <= 1
        /\ activaciones_claro <= Cardinality(puertos)

\* C31, as claimed: when every worker of the batch has finished, a port
\* whose worker appended itself to fallos_sin_numero.txt in activar_chip and
\* ended without a number has a line in the file.
C31_SinEntradasPerdidas ==
    (\A q \in puertos : pc[q] = "fin") =>
        \A p \in puertos :
            ( /\ ciclos[p] >= 1
              /\ iccid[p] \notin iccid_activados
              /\ numero_obtenido[p] = Ninguno )
            => p \in fallos_numero

=============================================================================
